---------------------------- MODULE Spec2Model ----------------------------
(***************************************************************************)
(* A model of json-schema-gen: the dependency graph (internal/schema,      *)
(* refs.go), the validation rule mapper, the schema derivation engine      *)
(* (Builder, BuildFieldSchema) and the generator's driver                  *)
(* (Generator.GenerateFromPaths).                                          *)
(*                                                                         *)
(* Go values are held as follows.  A map[string]bool is the set of its     *)
(* true keys.  A map[string]T is a function whose DOMAIN is the set of     *)
(* keys present.  A slice is a sequence.  A nil pointer to a schema is the *)
(* empty sequence and a non-nil one a sequence of length one.  A `range`   *)
(* over a Go map visits the keys in an order the runtime picks: every such *)
(* loop is modelled with the order as an input chosen with \E.             *)
(***************************************************************************)
EXTENDS Naturals, Sequences, FiniteSets, TLC

VARIABLES
    pc,            \* which operation ran last / where the driver stands
    dependencies,  \* DependencyGraph.dependencies: type -> types it depends on
    topoIn,        \* the `types` argument of the last TopologicalSort call
    topoOut,       \* its result: [result |-> sequence, err |-> error text or ""]
    dcOut,         \* the last DetectCircular result: [cycle |-> seq, found |-> BOOLEAN]
    schemaIn,      \* the schema handed to ApplyValidation
    fieldIn,       \* the field handed to ApplyValidation
    applied,       \* what ApplyValidation made of them: [schema, isRequired]
    builder,       \* the Builder: [schemaID, structMap]
    structs,       \* the records at hand: name -> StructInfo
    target,        \* the name of the record derived last
    built,         \* what BuildSchema returned and left: [schema, rt, ctx, err]
    tracker,       \* the RefTracker the caller holds between derivations (<<>> for none)
    docs,          \* the results so far of each derivation: <<name, inline, map set>> -> sequence
    count,         \* the derivations made so far
    annotated,     \* the names of the records that carry a +schema annotation
    gen,           \* the locals of GenerateFromPaths
    written,       \* the WriteSchema calls so far: [name, file, schema]
    lookups,       \* the names findReferencedStruct was called with so far
    stack,         \* the calls of an expansion under way: [name, i], the record and
                   \* the index its loop over the fields stands at
    InProgress,    \* InlineContext.InProgress of that expansion
    tagIn,         \* the tag handed to splitValidateTag, a sequence of characters
    partsOut       \* the parts it returned

graphVars == <<dependencies, topoIn, topoOut, dcOut>>
ruleVars == <<schemaIn, fieldIn, applied>>
buildVars == <<builder, structs, target, built>>
rebuildVars == <<tracker, docs, count>>
genVars == <<annotated, gen, written, lookups>>
expandVars == <<stack, InProgress>>
splitVars == <<tagIn, partsOut>>
vars == <<pc, graphVars, ruleVars, buildVars, rebuildVars, genVars, expandVars, splitVars>>

\* ------------------------------------------------------------------ bounds
\* The number of AddDependency calls a graph of SpecGraph is built from.
MaxEdges == 3

\* The number of parts of a validate tag of SpecRules.
MaxRules == 3

\* A record of SpecGen refers to at most this many records.
MaxRefs == 2

\* SpecRebuild makes at most this many derivations with one builder.
MaxDerivations == 3

\* Record A of SpecOrder has at most this many fields.
MaxFields == 3

\* An expansion nests at most this many calls of inlineStructSchema.
MaxDepth == 5

\* A validate tag of SpecSplit has at most this many characters.
MaxTag == 5

\* ------------------------------------------------------------- name universe
\* Record (type) names.
TypeNames == {"A", "B", "C"}

\* Per[S]: the sequences that enumerate the finite set S once each
\* (the orders in which a range over a Go map with key set S can run).
Perms(S) == {p \in [1..Cardinality(S) -> S] : \A i, j \in 1..Cardinality(S) : p[i] = p[j] => i = j}

\* The elements of a sequence.
Range(s) == {s[i] : i \in 1..Len(s)}

\* ------------------------------------------------------- DependencyGraph
\* NewDependencyGraph: no key present.
NewDependencyGraph == [n \in {} |-> <<>>]

\* dg.dependencies[name]: the Go map read, nil (the empty slice) for an absent key.
GetDependencies(dg, name) == IF name \in DOMAIN dg THEN dg[name] ELSE <<>>

\* AddDependency: dg.dependencies[from] = append(dg.dependencies[from], to).
AddDependency(dg, from, to) ==
    [n \in DOMAIN dg \cup {from} |-> IF n = from THEN Append(GetDependencies(dg, from), to) ELSE dg[n]]

\* The number of edges held (duplicates counted).
RECURSIVE SumLen(_, _)
SumLen(dg, S) ==
    IF S = {} THEN 0
    ELSE LET n == CHOOSE x \in S : TRUE IN Len(dg[n]) + SumLen(dg, S \ {n})

EdgeCount(dg) == SumLen(dg, DOMAIN dg)

\* ---- TopologicalSort
\* The closure state of TopologicalSort: visited, inProgress, result, and the
\* error a visit returned ("" for nil).
TopoStart == [visited |-> {}, inProgress |-> {}, result |-> <<>>, err |-> ""]

RECURSIVE topoVisit(_, _, _, _), topoVisitDeps(_, _, _, _, _)
\* visit(name) with the name appended to the result before its dependencies
\* are visited (a pre-order walk).
topoVisitPreorder(dg, typeSet, name, st) ==
    IF name \in st.visited THEN st
    ELSE IF name \in st.inProgress THEN [st EXCEPT !.err = "circular dependency detected involving type"]
    ELSE LET st1 == [st EXCEPT !.inProgress = @ \cup {name}, !.result = Append(@, name)]
             st2 == topoVisitDeps(dg, typeSet, GetDependencies(dg, name), 1, st1)
         IN  IF st2.err # "" THEN st2
             ELSE [st2 EXCEPT !.inProgress = @ \ {name}, !.visited = @ \cup {name}]

RECURSIVE topoVisitDepsAll(_, _, _, _, _)
\* The loop inside visit without the test `if typeSet[dep]`: every
\* dependency is visited.
topoVisitDepsAll(dg, typeSet, deps, i, st) ==
    IF i > Len(deps) THEN st
    ELSE LET st1 == topoVisit(dg, typeSet, deps[i], st)
         IN  IF st1.err # "" THEN st1 ELSE topoVisitDepsAll(dg, typeSet, deps, i + 1, st1)

\* visit(name) of TopologicalSort.
topoVisit(dg, typeSet, name, st) ==
    IF name \in st.visited THEN st
    ELSE IF name \in st.inProgress THEN [st EXCEPT !.err = "circular dependency detected involving type"]
    ELSE LET st1 == [st EXCEPT !.inProgress = @ \cup {name}]
             st2 == topoVisitDeps(dg, typeSet, GetDependencies(dg, name), 1, st1)
         IN  IF st2.err # "" THEN st2
             ELSE [st2 EXCEPT !.inProgress = @ \ {name},
                              !.visited = @ \cup {name},
                              !.result = Append(@, name)]

\* The loop over dg.dependencies[name] inside visit, from index i on.
topoVisitDeps(dg, typeSet, deps, i, st) ==
    IF i > Len(deps) THEN st
    ELSE IF deps[i] \in typeSet
         THEN LET st1 == topoVisit(dg, typeSet, deps[i], st)
              IN  IF st1.err # "" THEN st1 ELSE topoVisitDeps(dg, typeSet, deps, i + 1, st1)
         ELSE topoVisitDeps(dg, typeSet, deps, i + 1, st)

RECURSIVE topoLoop(_, _, _, _, _)
\* The loop `for _, t := range types` of TopologicalSort, from index i on.
topoLoop(dg, typeSet, types, i, st) ==
    IF i > Len(types) THEN st
    ELSE LET st1 == topoVisit(dg, typeSet, types[i], st)
         IN  IF st1.err # "" THEN st1 ELSE topoLoop(dg, typeSet, types, i + 1, st1)

\* TopologicalSort(types): (result, nil) or (nil, err).
TopologicalSort(dg, types) ==
    LET st == topoLoop(dg, Range(types), types, 1, TopoStart)
    IN  IF st.err # "" THEN [result |-> <<>>, err |-> st.err]
        ELSE [result |-> st.result, err |-> ""]

\* ---- DetectCircular
\* The closure state of DetectCircular, and whether the last visit returned true.
DetectStart == [visited |-> {}, inProgress |-> {}, cycle |-> <<>>, found |-> FALSE]

\* The least index i with path[i] = name (the loop `for i, p := range path`).
FirstIndex(path, name) == CHOOSE i \in 1..Len(path) : path[i] = name /\ \A j \in 1..(i - 1) : path[j] # name

RECURSIVE detectVisit(_, _, _, _), detectVisitDeps(_, _, _, _, _)
\* visit(name, path) that leaves a finished node marked in progress.
detectVisitNoClear(dg, name, path, st) ==
    IF name \in st.inProgress
    THEN IF name \in Range(path)
         THEN [st EXCEPT !.found = TRUE,
                         !.cycle = Append(SubSeq(path, FirstIndex(path, name), Len(path)), name)]
         ELSE [st EXCEPT !.found = TRUE]
    ELSE IF name \in st.visited THEN [st EXCEPT !.found = FALSE]
    ELSE LET st1 == [st EXCEPT !.inProgress = @ \cup {name}]
             st2 == detectVisitDeps(dg, GetDependencies(dg, name), 1, Append(path, name), st1)
         IN  IF st2.found THEN st2
             ELSE [st2 EXCEPT !.visited = @ \cup {name}]

\* visit(name, path) that reports the whole path, not its part from name on.
detectVisitWholePath(dg, name, path, st) ==
    IF name \in st.inProgress
    THEN IF name \in Range(path)
         THEN [st EXCEPT !.found = TRUE, !.cycle = Append(path, name)]
         ELSE [st EXCEPT !.found = TRUE]
    ELSE IF name \in st.visited THEN [st EXCEPT !.found = FALSE]
    ELSE LET st1 == [st EXCEPT !.inProgress = @ \cup {name}]
             st2 == detectVisitDeps(dg, GetDependencies(dg, name), 1, Append(path, name), st1)
         IN  IF st2.found THEN st2
             ELSE [st2 EXCEPT !.inProgress = @ \ {name}, !.visited = @ \cup {name}]

\* visit(name, path) of DetectCircular.
detectVisit(dg, name, path, st) ==
    IF name \in st.inProgress
    THEN IF name \in Range(path)
         THEN [st EXCEPT !.found = TRUE,
                         !.cycle = Append(SubSeq(path, FirstIndex(path, name), Len(path)), name)]
         ELSE [st EXCEPT !.found = TRUE]
    ELSE IF name \in st.visited THEN [st EXCEPT !.found = FALSE]
    ELSE LET st1 == [st EXCEPT !.inProgress = @ \cup {name}]
             st2 == detectVisitDeps(dg, GetDependencies(dg, name), 1, Append(path, name), st1)
         IN  IF st2.found THEN st2
             ELSE [st2 EXCEPT !.inProgress = @ \ {name}, !.visited = @ \cup {name}]

\* The loop over dg.dependencies[name] inside visit, from index i on.
detectVisitDeps(dg, deps, i, path, st) ==
    IF i > Len(deps) THEN [st EXCEPT !.found = FALSE]
    ELSE LET st1 == detectVisit(dg, deps[i], path, st)
         IN  IF st1.found THEN st1 ELSE detectVisitDeps(dg, deps, i + 1, path, st1)

RECURSIVE detectLoop(_, _, _, _)
\* The loop `for typeName := range dg.dependencies`, run in the order `order`.
detectLoop(dg, order, i, st) ==
    IF i > Len(order) THEN [st EXCEPT !.found = FALSE]
    ELSE LET st1 == detectVisit(dg, order[i], <<>>, st)
         IN  IF st1.found THEN st1 ELSE detectLoop(dg, order, i + 1, st1)

\* A DetectCircular that reports no cycle.
DetectCircularNever(dg, order) == [cycle |-> <<>>, found |-> FALSE]

\* DetectCircular(): (cycle, true) or (nil, false); `order` is the order in
\* which the range over the map dg.dependencies yields its keys.
DetectCircular(dg, order) ==
    LET st == detectLoop(dg, order, 1, DetectStart)
    IN  IF st.found THEN [cycle |-> st.cycle, found |-> TRUE]
        ELSE [cycle |-> <<>>, found |-> FALSE]

\* ------------------------------------------------------------ RefTracker
\* A *RefTracker is <<>> for nil and <<refs>> otherwise, refs the set of the
\* referenced type names.
NewRefTracker == <<{}>>

\* strings.ToLower on the type names of the model.
ToLower(typeName) ==
    CASE typeName = "A" -> "a"
      [] typeName = "B" -> "b"
      [] typeName = "C" -> "c"
      [] typeName = "D" -> "d"
      [] OTHER -> typeName

\* AddRef: rt.refs[typeName] = true.
AddRef(rt, typeName) == <<rt[1] \cup {typeName}>>

\* GetRefPath: lowercase(typeName) + ".schema.json".
GetRefPath(typeName) == ToLower(typeName) \o ".schema.json"

\* --------------------------------------------------------------- TypeInfo
\* A TypeInfo: ElemType is <<>> for nil and <<t>> for a pointer to t.  KeyType,
\* PackagePath, IsPointer and UnderlyingKind are read by no code modelled here.
TypeOf(kind, name, pkg, exported, underlying, elem) ==
    [Kind |-> kind, Name |-> name, PackageName |-> pkg, IsExported |-> exported,
     UnderlyingName |-> underlying, ElemType |-> elem]

PrimitiveT(name) == TypeOf("Primitive", name, "", FALSE, "", <<>>)
StructT(name) == TypeOf("Struct", name, "", TRUE, "", <<>>)
UnexportedT(name) == TypeOf("Struct", name, "", FALSE, "", <<>>)
ForeignT(pkg, name) == TypeOf("Struct", name, pkg, TRUE, "", <<>>)
TimeT == TypeOf("Time", "time.Time", "time", FALSE, "", <<>>)
DurationT == TypeOf("Duration", "time.Duration", "time", FALSE, "", <<>>)
AliasT(name, underlying) == TypeOf("Alias", name, "", TRUE, underlying, <<>>)
InterfaceT == TypeOf("Interface", "interface{}", "", FALSE, "", <<>>)
UnknownT == TypeOf("Unknown", "unknown", "", FALSE, "", <<>>)
PointerT(elem) == TypeOf("Pointer", "*", "", FALSE, "", <<elem>>)
SliceT(elem) == TypeOf("Slice", "[]", "", FALSE, "", <<elem>>)
ArrayT(elem) == TypeOf("Array", "[...]", "", FALSE, "", <<elem>>)
MapT(elem) == TypeOf("Map", "map[]", "", FALSE, "", <<elem>>)

RECURSIVE Underlying(_)
\* TypeInfo.Underlying: the type under any pointers.
Underlying(t) ==
    IF t.Kind = "Pointer" /\ t.ElemType # <<>> THEN Underlying(t.ElemType[1]) ELSE t

\* ----------------------------------------------------------------- Schema
\* A jsonschema.Schema.  Items and AdditionalProperties are <<>> for nil and
\* <<schema>> otherwise; MinLength and MaxLength are <<>> for nil and <<n>>
\* otherwise; Minimum, Maximum and the exclusive bounds are json.Number
\* strings; Properties is <<>> for nil and <<m>> otherwise, m the ordered map
\* as the sequence of its [key, value] pairs; Enum and Required are slices.
EmptySchema ==
    [Version |-> "", ID |-> "", Title |-> "", Description |-> "",
     Type |-> "", Format |-> "", Pattern |-> "", ContentEncoding |-> "",
     Enum |-> <<>>, MinLength |-> <<>>, MaxLength |-> <<>>,
     Minimum |-> "", Maximum |-> "", ExclusiveMinimum |-> "", ExclusiveMaximum |-> "",
     Items |-> <<>>, AdditionalProperties |-> <<>>, Ref |-> "",
     Properties |-> <<>>, Required |-> <<>>]

\* &jsonschema.Schema{Type: t}
TypeSchema(t) == [EmptySchema EXCEPT !.Type = t]

\* jsonschema.NewProperties(): an empty ordered map.
NewProperties == <<>>

\* properties.Set(key, value) of the ordered map: the value of a key already
\* present is replaced where the key stands, a new key goes to the end.
PropertiesSet(props, key, value) ==
    IF \E i \in 1..Len(props) : props[i].key = key
    THEN [i \in 1..Len(props) |-> IF props[i].key = key THEN [key |-> key, value |-> value] ELSE props[i]]
    ELSE Append(props, [key |-> key, value |-> value])

\* -------------------------------------------------------- ValidatorMapper
\* A validate tag is held as the sequence of its parts between the commas that
\* splitValidateTag splits at.  A part is [blank, name, eq, param]: the text
\* name, then "=" and param when eq, after a blank when blank.  No name holds
\* "=" or a blank, no param begins or ends with a blank.
Part(name) == [blank |-> FALSE, name |-> name, eq |-> FALSE, param |-> ""]
PartP(name, param) == [blank |-> FALSE, name |-> name, eq |-> TRUE, param |-> param]
BlankPart(name) == [blank |-> TRUE, name |-> name, eq |-> FALSE, param |-> ""]

\* A part that strings.TrimSpace leaves empty.
IsEmptyPart(part) == part.name = "" /\ ~part.eq

RECURSIVE splitLoop(_, _, _, _, _)
\* The loop `for _, ch := range tag` of splitValidateTag from index i on, and
\* what follows it: the last part is added when it is not empty.
splitLoop(tag, i, parts, current, depth) ==
    IF i > Len(tag) THEN (IF Len(current) > 0 THEN Append(parts, current) ELSE parts)
    ELSE CASE tag[i] = "[" -> splitLoop(tag, i + 1, parts, Append(current, tag[i]), depth + 1)
           [] tag[i] = "]" -> splitLoop(tag, i + 1, parts, Append(current, tag[i]), depth - 1)
           [] tag[i] = "," ->
                IF depth = 0
                THEN splitLoop(tag, i + 1, Append(parts, current), <<>>, depth)
                ELSE splitLoop(tag, i + 1, parts, Append(current, tag[i]), depth)
           [] OTHER -> splitLoop(tag, i + 1, parts, Append(current, tag[i]), depth)

\* splitValidateTag(tag), the tag a sequence of characters, the parts
\* sequences of characters.
splitValidateTag(tag) == splitLoop(tag, 1, <<>>, <<>>, 0)

RECURSIVE parseValidateTag(_)
\* parseValidateTag: each part trimmed, the empty ones skipped, the others
\* split at their first "=" into Name and Param.
parseValidateTag(parts) ==
    IF parts = <<>> THEN <<>>
    ELSE LET part == Head(parts)
             rest == parseValidateTag(Tail(parts))
         IN  IF IsEmptyPart(part) THEN rest
             ELSE <<[Name |-> part.name, Param |-> IF part.eq THEN part.param ELSE ""]>> \o rest

\* A ParseFloat that takes "x" for 0.
FloatParamsLenient == ("0" :> 0) @@ ("1" :> 1) @@ ("5" :> 5) @@ ("150" :> 150) @@ ("1.5" :> 1) @@ ("x" :> 0)

\* strconv.ParseFloat(param, 64) on the parameters of the model: the value
\* truncated as uint64(val) truncates it, for the parameters that parse.
FloatParams == ("0" :> 0) @@ ("1" :> 1) @@ ("5" :> 5) @@ ("150" :> 150) @@ ("1.5" :> 1)

\* strconv.ParseUint(param, 10, 64) on the parameters of the model.
UintParams == ("0" :> 0) @@ ("1" :> 1) @@ ("5" :> 5) @@ ("150" :> 150)

\* strings.Fields(param) on the parameters of the model.
Fields(param) ==
    CASE param = "" -> <<>>
      [] param = "a b" -> <<"a", "b">>
      [] OTHER -> <<param>>

\* regexp.QuoteMeta(param) on the parameters of the model.
QuoteMeta(param) ==
    CASE param = "1.5" -> "1\\.5"
      [] OTHER -> param

\* One pass of the switch of applyRulesToSchema: the schema after `rule`.
applyRule(schema, rule, isString, isNumeric) ==
    LET n == rule.Name
        prm == rule.Param
    IN  CASE n = "min" ->
               IF prm \in DOMAIN FloatParams
               THEN IF isString THEN [schema EXCEPT !.MinLength = <<FloatParams[prm]>>]
                    ELSE IF isNumeric THEN [schema EXCEPT !.Minimum = prm]
                    ELSE schema
               ELSE schema
          [] n = "max" ->
               IF prm \in DOMAIN FloatParams
               THEN IF isString THEN [schema EXCEPT !.MaxLength = <<FloatParams[prm]>>]
                    ELSE IF isNumeric THEN [schema EXCEPT !.Maximum = prm]
                    ELSE schema
               ELSE schema
          [] n = "len" ->
               IF prm \in DOMAIN UintParams /\ isString
               THEN [schema EXCEPT !.MinLength = <<UintParams[prm]>>, !.MaxLength = <<UintParams[prm]>>]
               ELSE schema
          [] n = "gte" ->
               IF prm \in DOMAIN FloatParams /\ isNumeric THEN [schema EXCEPT !.Minimum = prm] ELSE schema
          [] n = "lte" ->
               IF prm \in DOMAIN FloatParams /\ isNumeric THEN [schema EXCEPT !.Maximum = prm] ELSE schema
          [] n = "gt" ->
               IF prm \in DOMAIN FloatParams /\ isNumeric THEN [schema EXCEPT !.ExclusiveMinimum = prm] ELSE schema
          [] n = "lt" ->
               IF prm \in DOMAIN FloatParams /\ isNumeric THEN [schema EXCEPT !.ExclusiveMaximum = prm] ELSE schema
          [] n = "email" -> [schema EXCEPT !.Format = "email"]
          [] n \in {"url", "uri", "http_url"} -> [schema EXCEPT !.Format = "uri"]
          [] n \in {"uuid", "uuid3", "uuid4", "uuid5"} -> [schema EXCEPT !.Format = "uuid"]
          [] n = "ipv4" -> [schema EXCEPT !.Format = "ipv4"]
          [] n = "ipv6" -> [schema EXCEPT !.Format = "ipv6"]
          [] n = "ip" -> [schema EXCEPT !.Format = "ip"]
          [] n = "datetime" -> [schema EXCEPT !.Format = "date-time"]
          [] n = "date" -> [schema EXCEPT !.Format = "date"]
          [] n = "oneof" ->
               IF Len(Fields(prm)) > 0 THEN [schema EXCEPT !.Enum = Fields(prm)] ELSE schema
          [] n = "alpha" -> [schema EXCEPT !.Pattern = "^[a-zA-Z]+$"]
          [] n = "alphanum" -> [schema EXCEPT !.Pattern = "^[a-zA-Z0-9]+$"]
          [] n = "alphanumunicode" -> [schema EXCEPT !.Pattern = "^[\\p{L}\\p{N}]+$"]
          [] n = "alphaunicode" -> [schema EXCEPT !.Pattern = "^\\p{L}+$"]
          [] n = "numeric" -> [schema EXCEPT !.Pattern = "^[0-9]+$"]
          [] n = "hexadecimal" -> [schema EXCEPT !.Pattern = "^[0-9a-fA-F]+$"]
          [] n = "lowercase" -> [schema EXCEPT !.Pattern = "^[a-z]+$"]
          [] n = "uppercase" -> [schema EXCEPT !.Pattern = "^[A-Z]+$"]
          [] n = "contains" -> IF prm # "" THEN [schema EXCEPT !.Pattern = QuoteMeta(prm)] ELSE schema
          [] n = "startswith" -> IF prm # "" THEN [schema EXCEPT !.Pattern = "^" \o QuoteMeta(prm)] ELSE schema
          [] n = "endswith" -> IF prm # "" THEN [schema EXCEPT !.Pattern = QuoteMeta(prm) \o "$"] ELSE schema
          [] n \in {"hostname", "fqdn"} -> [schema EXCEPT !.Format = "hostname"]
          [] n = "base64" -> [schema EXCEPT !.ContentEncoding = "base64"]
          [] n = "ascii" -> [schema EXCEPT !.Pattern = "^[\\x00-\\x7F]*$"]
          [] OTHER -> schema

RECURSIVE applyRulesLoop(_, _, _, _, _)
\* The loop `for _, rule := range rules` of applyRulesToSchema, from index i
\* on; out is [schema, isRequired] so far.
applyRulesLoop(rules, i, isString, isNumeric, out) ==
    IF i > Len(rules) THEN out
    ELSE applyRulesLoop(rules, i + 1, isString, isNumeric,
            [schema |-> applyRule(out.schema, rules[i], isString, isNumeric),
             isRequired |-> out.isRequired \/ rules[i].Name = "required"])

\* applyRulesToSchema(schema, rules): the schema as mutated, and isRequired.
applyRulesToSchema(schema, rules) ==
    applyRulesLoop(rules, 1, schema.Type = "string", schema.Type \in {"integer", "number"},
                   [schema |-> schema, isRequired |-> FALSE])

\* The index of the first rule named dive, 0 for the code's -1.
DiveIdx(rules) ==
    IF \E i \in 1..Len(rules) : rules[i].Name = "dive"
    THEN CHOOSE i \in 1..Len(rules) : rules[i].Name = "dive" /\ \A j \in 1..(i - 1) : rules[j].Name # "dive"
    ELSE 0

\* ApplyValidation that applies the rules after dive to the items and then the
\* whole list, not only the rules before dive, to the array.
ApplyValidationNoCut(schema, field) ==
    IF "validate" \notin DOMAIN field.Tags THEN [schema |-> schema, isRequired |-> FALSE]
    ELSE LET rules == parseValidateTag(field.Tags["validate"])
             diveIdx == DiveIdx(rules)
         IN  IF diveIdx >= 1 /\ schema.Type = "array" /\ schema.Items # <<>>
             THEN LET items == applyRulesToSchema(schema.Items[1], SubSeq(rules, diveIdx + 1, Len(rules))).schema
                  IN  applyRulesToSchema([schema EXCEPT !.Items = <<items>>], rules)
             ELSE applyRulesToSchema(schema, rules)

\* ApplyValidation(schema, field): the schema as mutated, and isRequired.
ApplyValidation(schema, field) ==
    IF "validate" \notin DOMAIN field.Tags THEN [schema |-> schema, isRequired |-> FALSE]
    ELSE LET rules == parseValidateTag(field.Tags["validate"])
             diveIdx == DiveIdx(rules)
         IN  IF diveIdx >= 1 /\ schema.Type = "array" /\ schema.Items # <<>>
             THEN LET items == applyRulesToSchema(schema.Items[1], SubSeq(rules, diveIdx + 1, Len(rules))).schema
                  IN  applyRulesToSchema([schema EXCEPT !.Items = <<items>>], SubSeq(rules, 1, diveIdx - 1))
             ELSE applyRulesToSchema(schema, rules)

\* ------------------------------------------- fields, records, derivation
\* A parser.FieldInfo.  Tags holds the keys present; Tags["validate"] and
\* Tags["schema"] are sequences of parts (see Part).
FieldOf(name, propertyName, type, tags, doc, embedded, omitEmpty) ==
    [Name |-> name, PropertyName |-> propertyName, Type |-> type, Tags |-> tags,
     Doc |-> doc, IsEmbedded |-> embedded, OmitEmpty |-> omitEmpty]

\* A parser.StructInfo (Package, PackagePath and FilePath are not read).
StructOf(name, fields, doc, inline) ==
    [Name |-> name, Fields |-> fields, Doc |-> doc, Inline |-> inline]

\* No tag, a validate tag, a schema tag, both.
NoTags == [k \in {} |-> <<>>]
ValidateTag(parts) == [k \in {"validate"} |-> parts]
SchemaTag(parts) == [k \in {"schema"} |-> parts]

\* primitiveToSchema: the schema type of a primitive's name (the format it
\* returns is always empty).
primitiveToSchema(name) ==
    CASE name = "string" -> "string"
      [] name \in {"int", "int8", "int16", "int32", "int64", "uint", "uint8",
                   "uint16", "uint32", "uint64", "byte", "rune"} -> "integer"
      [] name \in {"float32", "float64"} -> "number"
      [] name = "bool" -> "boolean"
      [] OTHER -> "string"

\* parseSchemaTypeOverride: the text after "type=" of the first part that
\* starts with it, "" when there is none.
parseSchemaTypeOverride(parts) ==
    IF \E i \in 1..Len(parts) : parts[i].name = "type" /\ parts[i].eq
    THEN LET i == CHOOSE k \in 1..Len(parts) :
                      /\ parts[k].name = "type" /\ parts[k].eq
                      /\ \A j \in 1..(k - 1) : ~(parts[j].name = "type" /\ parts[j].eq)
         IN  parts[i].param
    ELSE ""

\* An *InlineContext is <<>> for nil and <<[ParentInline, StructMap,
\* InProgress]>> otherwise (Enabled is always false and Builder is the one
\* builder).  shouldInlineStruct:
shouldInlineStructNever(inlineCtx) == FALSE
shouldInlineStruct(inlineCtx) == inlineCtx # <<>> /\ inlineCtx[1].ParentInline

\* What a derivation step returns: the schema (<<>> for nil), the tracker and
\* the inline context as the step left them, and the error ("" for nil).
Derived(schema, rt, ctx, err) == [schema |-> schema, rt |-> rt, ctx |-> ctx, err |-> err]

\* A `Use $ref` branch that emits the link and registers nothing.
refOrObjectUntracked(name, rt, ctx) ==
    IF rt # <<>>
    THEN Derived(<<[EmptySchema EXCEPT !.Ref = GetRefPath(name)]>>, rt, ctx, "")
    ELSE Derived(<<TypeSchema("object")>>, rt, ctx, "")

\* A `Use $ref` branch that emits a link only to a name the tracker lacks.
refOrObjectOnce(name, rt, ctx) ==
    IF rt # <<>> /\ name \notin rt[1]
    THEN Derived(<<[EmptySchema EXCEPT !.Ref = GetRefPath(name)]>>, AddRef(rt, name), ctx, "")
    ELSE Derived(<<TypeSchema("object")>>, rt, ctx, "")

\* The link or the bare object of the `Use $ref` branch.
refOrObject(name, rt, ctx) ==
    IF rt # <<>>
    THEN Derived(<<[EmptySchema EXCEPT !.Ref = GetRefPath(name)]>>, AddRef(rt, name), ctx, "")
    ELSE Derived(<<TypeSchema("object")>>, rt, ctx, "")

\* field.Doc, when not empty, becomes the description.
withDoc(schema, doc) == IF doc # "" THEN [schema EXCEPT !.Description = doc] ELSE schema

\* The array schema whose items are the element's derivation r, r's error
\* passed on.
arrayOf(r) ==
    IF r.err # "" THEN Derived(<<>>, r.rt, r.ctx, r.err)
    ELSE Derived(<<[TypeSchema("array") EXCEPT !.Items = r.schema]>>, r.rt, r.ctx, "")

\* The object schema whose additionalProperties are the element's derivation.
mapOf(r) ==
    IF r.err # "" THEN Derived(<<>>, r.rt, r.ctx, r.err)
    ELSE Derived(<<[TypeSchema("object") EXCEPT !.AdditionalProperties = r.schema]>>, r.rt, r.ctx, "")

\* What buildElemSchema makes of inlineStructSchema's result r.
elemInlined(r, rt) ==
    IF r.err # "" THEN Derived(<<>>, rt, r.ctx, r.err)
    ELSE IF r.schema # <<>> THEN Derived(r.schema, rt, r.ctx, "")
    ELSE Derived(<<TypeSchema("object")>>, rt, r.ctx, "")

\* What BuildFieldSchema makes of inlineStructSchema's result r: the type, the
\* properties, the required list and the description are copied.
fieldInlined(r, rt) ==
    IF r.err # "" THEN Derived(<<>>, rt, r.ctx, r.err)
    ELSE IF r.schema # <<>>
    THEN Derived(<<[EmptySchema EXCEPT !.Type = r.schema[1].Type,
                                       !.Properties = r.schema[1].Properties,
                                       !.Required = r.schema[1].Required,
                                       !.Description = r.schema[1].Description]>>,
                 rt, r.ctx, "")
    ELSE Derived(<<TypeSchema("object")>>, rt, r.ctx, "")

\* An end of inlineStructSchema that leaves the name in progress.
inlineDoneKept(r, name) ==
    IF r.err # "" THEN Derived(<<>>, <<>>, r.ctx, r.err)
    ELSE Derived(r.schema, <<>>, r.ctx, "")

\* The end of inlineStructSchema, r the result of buildInlineSchema: the name
\* leaves InProgress when there was no error.
inlineDone(r, name) ==
    IF r.err # "" THEN Derived(<<>>, <<>>, r.ctx, r.err)
    ELSE Derived(r.schema, <<>>, <<[r.ctx[1] EXCEPT !.InProgress = @ \ {name}]>>, "")

\* The end of BuildFieldSchema, typed the result of its switch: field.Doc
\* becomes the description.
described(typed, doc) ==
    IF typed.err # "" THEN typed
    ELSE [typed EXCEPT !.schema = <<withDoc(typed.schema[1], doc)>>]

\* The end of buildInlineSchema, r the result of its loop.
inlineObject(r, structInfo) ==
    IF r.err # "" THEN Derived(<<>>, <<>>, r.ctx, r.err)
    ELSE Derived(<<[TypeSchema("object") EXCEPT !.Description = structInfo.Doc,
                                               !.Properties = <<r.properties>>,
                                               !.Required = r.required]>>,
                 <<>>, r.ctx, "")

\* Two other tests in that place: one that appends nothing, one that does not
\* look at OmitEmpty.
addRequiredNever(required, field, isRequired) == required
addRequiredAnyway(required, field, isRequired) ==
    IF isRequired THEN Append(required, field.PropertyName) ELSE required

\* One that puts the name at the front of the list.
addRequiredFirst(required, field, isRequired) ==
    IF isRequired /\ ~field.OmitEmpty THEN <<field.PropertyName>> \o required ELSE required

\* `if isRequired && !field.OmitEmpty { required = append(required, ...) }`
addRequired(required, field, isRequired) ==
    IF isRequired /\ ~field.OmitEmpty THEN Append(required, field.PropertyName) ELSE required

RECURSIVE BuildFieldSchema(_, _, _), fieldSwitch(_, _, _), buildElemSchema(_, _, _),
          inlineStructSchema(_, _), buildInlineSchema(_, _),
          buildInlineFields(_, _, _, _, _), inlineFieldStep(_, _, _, _, _)

\* inlineStructSchema(name, inlineCtx): (nil, nil) for a name the struct map
\* lacks, an error for a name in progress, else the inline schema, the name
\* in progress while it is built.
inlineStructSchema(name, ctx) ==
    IF name \notin DOMAIN ctx[1].StructMap THEN Derived(<<>>, <<>>, ctx, "")
    ELSE IF name \in ctx[1].InProgress THEN Derived(<<>>, <<>>, ctx, "circular reference detected")
    ELSE inlineDone(buildInlineSchema(ctx[1].StructMap[name],
                                      <<[ctx[1] EXCEPT !.InProgress = @ \cup {name}]>>),
                    name)

\* buildElemSchema(typeInfo, refTracker, inlineCtx).
buildElemSchema(typeInfo, rt, ctx) ==
    LET underlying == Underlying(typeInfo)
        k == underlying.Kind
    IN  CASE k = "Primitive" -> Derived(<<TypeSchema(primitiveToSchema(underlying.Name))>>, rt, ctx, "")
          [] k = "Time" -> Derived(<<[TypeSchema("string") EXCEPT !.Format = "date-time"]>>, rt, ctx, "")
          [] k = "Duration" -> Derived(<<[TypeSchema("string") EXCEPT !.Format = "duration"]>>, rt, ctx, "")
          [] k = "Alias" -> Derived(<<TypeSchema(primitiveToSchema(underlying.UnderlyingName))>>, rt, ctx, "")
          [] k = "Struct" ->
               IF underlying.IsExported /\ underlying.PackageName = ""
               THEN IF shouldInlineStruct(ctx)
                    THEN elemInlined(inlineStructSchema(underlying.Name, ctx), rt)
                    ELSE refOrObject(underlying.Name, rt, ctx)
               ELSE Derived(<<TypeSchema("object")>>, rt, ctx, "")
          [] k \in {"Slice", "Array"} ->
               IF underlying.ElemType # <<>>
               THEN arrayOf(buildElemSchema(underlying.ElemType[1], rt, ctx))
               ELSE Derived(<<TypeSchema("array")>>, rt, ctx, "")
          [] k = "Map" ->
               IF underlying.ElemType # <<>>
               THEN mapOf(buildElemSchema(underlying.ElemType[1], rt, ctx))
               ELSE Derived(<<TypeSchema("object")>>, rt, ctx, "")
          [] OTHER -> Derived(<<EmptySchema>>, rt, ctx, "")

\* The switch on underlying.Kind of BuildFieldSchema.
fieldSwitch(underlying, rt, ctx) ==
    LET k == underlying.Kind
    IN  CASE k = "Primitive" -> Derived(<<TypeSchema(primitiveToSchema(underlying.Name))>>, rt, ctx, "")
          [] k = "Time" -> Derived(<<[TypeSchema("string") EXCEPT !.Format = "date-time"]>>, rt, ctx, "")
          [] k = "Duration" -> Derived(<<[TypeSchema("string") EXCEPT !.Format = "duration"]>>, rt, ctx, "")
          [] k = "Alias" -> Derived(<<TypeSchema(primitiveToSchema(underlying.UnderlyingName))>>, rt, ctx, "")
          [] k \in {"Slice", "Array"} ->
               IF underlying.ElemType # <<>>
               THEN arrayOf(buildElemSchema(underlying.ElemType[1], rt, ctx))
               ELSE Derived(<<TypeSchema("array")>>, rt, ctx, "")
          [] k = "Map" ->
               IF underlying.ElemType # <<>>
               THEN mapOf(buildElemSchema(underlying.ElemType[1], rt, ctx))
               ELSE Derived(<<TypeSchema("object")>>, rt, ctx, "")
          [] k = "Struct" ->
               IF underlying.IsExported /\ underlying.PackageName = ""
               THEN IF shouldInlineStruct(ctx)
                    THEN fieldInlined(inlineStructSchema(underlying.Name, ctx), rt)
                    ELSE refOrObject(underlying.Name, rt, ctx)
               ELSE Derived(<<TypeSchema("object")>>, rt, ctx, "")
          [] k = "Interface" -> Derived(<<EmptySchema>>, rt, ctx, "")
          [] OTHER -> Derived(<<TypeSchema("string")>>, rt, ctx, "")

\* BuildFieldSchema(field, refTracker, inlineCtx): a `schema:"type=..."`
\* override returns before the switch.
BuildFieldSchema(field, rt, ctx) ==
    LET overrideType == IF "schema" \in DOMAIN field.Tags
                        THEN parseSchemaTypeOverride(field.Tags["schema"]) ELSE ""
    IN  IF overrideType # ""
        THEN Derived(<<withDoc(TypeSchema(overrideType), field.Doc)>>, rt, ctx, "")
        ELSE described(fieldSwitch(Underlying(field.Type), rt, ctx), field.Doc)

\* The loop over structInfo.Fields of buildInlineSchema, from index i on, with
\* the properties and the required list so far.
buildInlineFields(fields, i, ctx, properties, required) ==
    IF i > Len(fields)
    THEN [properties |-> properties, required |-> required, ctx |-> ctx, err |-> ""]
    ELSE inlineFieldStep(fields, i, BuildFieldSchema(fields[i], <<>>, ctx), properties, required)

\* The rest of one iteration of that loop, r the field's derivation.
inlineFieldStep(fields, i, r, properties, required) ==
    IF r.err # ""
    THEN [properties |-> properties, required |-> required, ctx |-> r.ctx, err |-> r.err]
    ELSE LET v == ApplyValidation(r.schema[1], fields[i])
         IN  buildInlineFields(fields, i + 1, r.ctx,
                 PropertiesSet(properties, fields[i].PropertyName, v.schema),
                 addRequired(required, fields[i], v.isRequired))

\* Builder.buildInlineSchema(structInfo, inlineCtx).
buildInlineSchema(structInfo, ctx) ==
    inlineObject(buildInlineFields(structInfo.Fields, 1, ctx, NewProperties, <<>>), structInfo)

RECURSIVE buildFields(_, _, _, _, _, _), fieldStep(_, _, _, _, _)
\* The loop over structInfo.Fields of BuildSchema, from index i on.
buildFields(fields, i, rt, ctx, properties, required) ==
    IF i > Len(fields)
    THEN [properties |-> properties, required |-> required, rt |-> rt, ctx |-> ctx, err |-> ""]
    ELSE fieldStep(fields, i, BuildFieldSchema(fields[i], rt, ctx), properties, required)

\* The rest of one iteration of that loop, r the field's derivation.
fieldStep(fields, i, r, properties, required) ==
    IF r.err # ""
    THEN [properties |-> properties, required |-> required, rt |-> r.rt, ctx |-> r.ctx, err |-> r.err]
    ELSE LET v == ApplyValidation(r.schema[1], fields[i])
         IN  buildFields(fields, i + 1, r.rt, r.ctx,
                 PropertiesSet(properties, fields[i].PropertyName, v.schema),
                 addRequired(required, fields[i], v.isRequired))

\* JSONSchemaDraft.
JSONSchemaDraft == "https://json-schema.org/draft/2020-12/schema"

\* A Builder is [schemaID, structMap], structMap <<>> for nil and <<m>>
\* otherwise.  The context BuildSchema creates: nil without a struct map, else
\* a fresh one with the record itself in progress.
newInlineContext(b, structInfo) ==
    IF b.structMap # <<>>
    THEN <<[ParentInline |-> structInfo.Inline, StructMap |-> b.structMap[1],
            InProgress |-> {structInfo.Name}]>>
    ELSE <<>>

\* The document BuildSchema returns, r the result of its loop.
document(b, structInfo, r) ==
    IF r.err # "" THEN Derived(<<>>, r.rt, r.ctx, r.err)
    ELSE Derived(<<[EmptySchema EXCEPT
                      !.Version = JSONSchemaDraft,
                      !.Title = structInfo.Name,
                      !.Type = "object",
                      !.ID = IF b.schemaID # ""
                             THEN b.schemaID \o "/" \o ToLower(structInfo.Name) \o ".schema.json"
                             ELSE "",
                      !.Description = structInfo.Doc,
                      !.Properties = <<r.properties>>,
                      !.Required = r.required]>>,
                 r.rt, r.ctx, "")

\* Builder.BuildSchema(structInfo, refTracker): the document (<<>> for nil),
\* the tracker and the context as left, and the error.
BuildSchema(b, structInfo, rt) ==
    document(b, structInfo,
             buildFields(structInfo.Fields, 1, rt, newInlineContext(b, structInfo), NewProperties, <<>>))

\* Builder.BuildSchemaWithRefs(structInfo): BuildSchema of the record with
\* Inline cleared and a new tracker; refs is the key set of the tracker's map
\* (GetRefs returns it in the order a range over the map gives).
BuildSchemaWithRefs(b, structInfo) ==
    LET r == BuildSchema(b, [structInfo EXCEPT !.Inline = FALSE], NewRefTracker)
    IN  IF r.err # "" THEN [schema |-> <<>>, refs |-> {}, err |-> r.err]
        ELSE [schema |-> r.schema, refs |-> r.rt[1], err |-> ""]

\* ------------------------------------------------------ SpecGraph: the graph
\* The `types` arguments tried: every enumeration of a set of names, and each
\* of these with its first name given once more at the end.
TypeLists ==
    LET once == UNION {Perms(S) : S \in SUBSET TypeNames}
    IN  once \cup {Append(p, p[1]) : p \in {q \in once : Len(q) > 0}}

NoTopo == [result |-> <<>>, err |-> ""]
NoDetect == [cycle |-> <<>>, found |-> FALSE]

\* The variables of the graph, of the rule mapper and of the builder while a
\* specification does not use them.
IdleGraph ==
    /\ dependencies = NewDependencyGraph
    /\ topoIn = <<>>
    /\ topoOut = NoTopo
    /\ dcOut = NoDetect

IdleRules ==
    /\ schemaIn = EmptySchema
    /\ fieldIn = FieldOf("", "", UnknownT, NoTags, "", FALSE, FALSE)
    /\ applied = [schema |-> EmptySchema, isRequired |-> FALSE]

NotBuilt == Derived(<<>>, <<>>, <<>>, "")

IdleBuild ==
    /\ builder = [schemaID |-> "", structMap |-> <<>>]
    /\ structs = [n \in {} |-> <<>>]
    /\ target = ""
    /\ built = NotBuilt

IdleRebuild ==
    /\ tracker = <<>>
    /\ docs = <<>>
    /\ count = 0

IdleGen ==
    /\ annotated = {}
    /\ gen = <<>>
    /\ written = <<>>
    /\ lookups = <<>>

IdleExpand ==
    /\ stack = <<>>
    /\ InProgress = {}

IdleSplit ==
    /\ tagIn = <<>>
    /\ partsOut = <<>>

InitGraph ==
    /\ pc = "graph"
    /\ IdleGraph
    /\ IdleRules
    /\ IdleBuild
    /\ IdleRebuild
    /\ IdleGen
    /\ IdleExpand
    /\ IdleSplit

\* A call of AddDependency(from, to); the result of an earlier query is dropped.
GraphAddDependency ==
    /\ pc \in {"graph", "sorted", "detected"}
    /\ EdgeCount(dependencies) < MaxEdges
    /\ \E from \in TypeNames, to \in TypeNames :
          dependencies' = AddDependency(dependencies, from, to)
    /\ pc' = "graph"
    /\ topoIn' = <<>>
    /\ topoOut' = NoTopo
    /\ dcOut' = NoDetect
    /\ UNCHANGED <<splitVars, expandVars, ruleVars, buildVars, rebuildVars, genVars>>

\* A call of TopologicalSort(types) on the graph built so far.
GraphTopologicalSort ==
    /\ pc = "graph"
    /\ \E types \in TypeLists :
          /\ topoIn' = types
          /\ topoOut' = TopologicalSort(dependencies, types)
    /\ pc' = "sorted"
    /\ UNCHANGED <<splitVars, expandVars, dependencies, dcOut, ruleVars, buildVars, rebuildVars, genVars>>

\* A call of DetectCircular() on the graph built so far.
GraphDetectCircular ==
    /\ pc = "graph"
    /\ \E order \in Perms(DOMAIN dependencies) :
          dcOut' = DetectCircular(dependencies, order)
    /\ pc' = "detected"
    /\ UNCHANGED <<splitVars, expandVars, dependencies, topoIn, topoOut, ruleVars, buildVars, rebuildVars, genVars>>

NextGraph == GraphAddDependency \/ GraphTopologicalSort \/ GraphDetectCircular

SpecGraph == InitGraph /\ [][NextGraph]_vars

\* ------------------------------------------------- graph claims (SpecGraph)
\* The edges of a graph, as a set of pairs <<from, to>>.
Edges(dg) == UNION {{<<f, dg[f][i]>> : i \in 1..Len(dg[f])} : f \in DOMAIN dg}

\* The targets of the edges of E that leave a node of S.
Succ(E, S) == {e[2] : e \in {x \in E : x[1] \in S}}

RECURSIVE Closure(_, _)
\* The nodes reachable from S along edges of E, S included.
Closure(E, S) == LET T == S \cup Succ(E, S) IN IF T = S THEN S ELSE Closure(E, T)

\* The nodes reachable from n along at least one edge of E.
ReachableFrom(E, n) == Closure(E, Succ(E, {n}))

\* E has a directed cycle (a self-edge is one).
HasCycle(E) == \E e \in E : e[1] \in ReachableFrom(E, e[1])

\* Some index at which x stands in seq.
Pos(seq, x) == CHOOSE i \in 1..Len(seq) : seq[i] = x

\* The graph and the names of the last TopologicalSort call are those C2 speaks
\* of: no cycle, and every edge target among the supplied names.
C2_Resolvable ==
    /\ pc = "sorted"
    /\ ~HasCycle(Edges(dependencies))
    /\ \A e \in Edges(dependencies) : e[2] \in Range(topoIn)

\* C2: on an acyclic graph whose edge targets are all among the supplied names,
\* TopologicalSort succeeds, and for every edge R -> D with R among the names
\* both stand in the output, D at an index no later than R's.
C2_DependenciesFirst ==
    C2_Resolvable =>
        /\ topoOut.err = ""
        /\ \A e \in Edges(dependencies) :
              e[1] \in Range(topoIn) =>
                  /\ e[1] \in Range(topoOut.result)
                  /\ e[2] \in Range(topoOut.result)
                  /\ Pos(topoOut.result, e[2]) <= Pos(topoOut.result, e[1])

\* C2 witness: a sort of a two-edge chain whose names were supplied with the
\* dependent record first, so that the sort had to reorder them.
C2_Witness ==
    /\ C2_Resolvable
    /\ Cardinality(Edges(dependencies)) >= 2
    /\ \E e \in Edges(dependencies) :
          /\ e[1] \in Range(topoIn)
          /\ Pos(topoIn, e[1]) < Pos(topoIn, e[2])
          /\ Pos(topoOut.result, e[2]) < Pos(topoOut.result, e[1])

\* C3: DetectCircular reports found exactly when the graph has a directed
\* cycle, whichever order the start nodes were visited in.
C3_DetectIffCycle ==
    pc = "detected" => (dcOut.found <=> HasCycle(Edges(dependencies)))

\* C3 witness: a cycle was found in a graph with several start nodes and an
\* edge that lies on no cycle.
C3_Witness ==
    /\ pc = "detected"
    /\ dcOut.found
    /\ Cardinality(DOMAIN dependencies) >= 2
    /\ \E e \in Edges(dependencies) : e[1] \notin ReachableFrom(Edges(dependencies), e[2])

\* ----------------------------------------------- SpecRules: the rule mapper
\* The sequences over S of length at most n.
RECURSIVE SeqsUpTo(_, _)
SeqsUpTo(S, n) ==
    IF n = 0 THEN {<<>>}
    ELSE LET shorter == SeqsUpTo(S, n - 1)
         IN  shorter \cup {Append(q, x) : q \in {r \in shorter : Len(r) = n - 1}, x \in S}

\* The parts the validate tags of SpecRules are made of.
RuleParts ==
    {Part("required"), Part("dive"), PartP("oneof", "a b"), Part("email"),
     PartP("min", "1"), PartP("max", "x"), Part("numeric"), PartP("gte", "0"), PartP("gte", "x"),
     Part(""), BlankPart("required")}

\* The schemas BuildFieldSchema hands to ApplyValidation for a string, an
\* integer, a boolean, a slice of strings, a slice typed by an override (no
\* items), a slice of slices of strings, a map of strings, a linked record and
\* an interface.
RuleSchemas ==
    {TypeSchema("string"), TypeSchema("integer"), TypeSchema("boolean"),
     [TypeSchema("array") EXCEPT !.Items = <<TypeSchema("string")>>],
     TypeSchema("array"),
     [TypeSchema("array") EXCEPT !.Items = <<[TypeSchema("array") EXCEPT !.Items = <<TypeSchema("string")>>]>>],
     [TypeSchema("object") EXCEPT !.AdditionalProperties = <<TypeSchema("string")>>],
     [EmptySchema EXCEPT !.Ref = GetRefPath("B")],
     EmptySchema}

InitRules ==
    /\ pc = "rules"
    /\ schemaIn \in RuleSchemas
    /\ \E tags \in {NoTags} \cup {ValidateTag(parts) : parts \in SeqsUpTo(RuleParts, MaxRules)} :
          fieldIn = FieldOf("F", "f", UnknownT, tags, "", FALSE, FALSE)
    /\ applied = [schema |-> EmptySchema, isRequired |-> FALSE]
    /\ IdleGraph
    /\ IdleBuild
    /\ IdleRebuild
    /\ IdleGen
    /\ IdleExpand
    /\ IdleSplit

\* mapper.ApplyValidation(fieldSchema, field).
RulesApplyValidation ==
    /\ pc = "rules"
    /\ applied' = ApplyValidation(schemaIn, fieldIn)
    /\ pc' = "applied"
    /\ UNCHANGED <<splitVars, expandVars, schemaIn, fieldIn, graphVars, buildVars, rebuildVars, genVars>>

NextRules == RulesApplyValidation

SpecRules == InitRules /\ [][NextRules]_vars

\* -------------------------------------------------- SpecBuild: derivation
\* The records of SpecBuild.  C is a leaf, B refers to C, and A has one field
\* drawn from the types and tags below, alone or beside a second field.
RecordC ==
    StructOf("C",
        <<FieldOf("Name", "name", PrimitiveT("string"), ValidateTag(<<Part("required")>>), "the name", FALSE, FALSE),
          FieldOf("Note", "note", PrimitiveT("string"), ValidateTag(<<Part("required")>>), "", FALSE, TRUE)>>,
        "record C", FALSE)

RecordsB ==
    {StructOf("B",
        <<FieldOf("C", "c", StructT("C"), ValidateTag(<<Part("required")>>), "", FALSE, FALSE)>>,
        "record B", FALSE),
     StructOf("B",
        <<FieldOf("Items", "items", SliceT(StructT("C")), NoTags, "the items", FALSE, TRUE),
          FieldOf("ID", "id", PrimitiveT("int"), ValidateTag(<<PartP("gte", "0"), Part("required")>>), "", FALSE, FALSE)>>,
        "", TRUE)}

\* The types of A's field: primitives, a record directly, behind pointers and
\* inside slices, arrays and maps at several depths, a record the struct map
\* lacks (D), A itself, and the types that are no local exported record.
FieldTypes ==
    {PrimitiveT("string"), PrimitiveT("int"),
     StructT("B"), PointerT(StructT("B")), PointerT(PointerT(StructT("C"))),
     SliceT(StructT("B")), ArrayT(PointerT(StructT("C"))), MapT(StructT("C")),
     SliceT(MapT(StructT("B"))), MapT(SliceT(SliceT(StructT("C")))),
     SliceT(PrimitiveT("string")),
     StructT("D"), StructT("A"),
     ForeignT("pkg", "pkg.T"), UnexportedT("b"), InterfaceT, TimeT,
     AliasT("Status", "string")}

\* The tags of A's field.
FieldTags ==
    {NoTags,
     ValidateTag(<<Part("required")>>),
     ValidateTag(<<Part("required"), Part("email")>>),
     ValidateTag(<<Part("dive"), Part("required")>>),
     ValidateTag(<<Part("required"), Part("dive"), PartP("oneof", "a b")>>),
     ValidateTag(<<Part("omitempty"), PartP("min", "1"), BlankPart("required")>>),
     ValidateTag(<<PartP("oneof", "a b"), PartP("len", "5")>>),
     SchemaTag(<<PartP("type", "object")>>),
     [k \in {"validate", "schema"} |->
         IF k = "validate" THEN <<Part("required"), Part("numeric")>> ELSE <<PartP("type", "array")>>]}

\* A's field.
FieldsA == {FieldOf("F", "f", t, tags, "", FALSE, omit) : t \in FieldTypes, tags \in FieldTags, omit \in BOOLEAN}

\* The second field of A: one of the same property name as the first, one of
\* another name.
SameNameField == FieldOf("G", "f", PrimitiveT("string"), ValidateTag(<<Part("required")>>), "", FALSE, FALSE)
OtherNameField == FieldOf("G", "g", StructT("C"), ValidateTag(<<Part("required")>>), "the g", FALSE, TRUE)

FieldListsA ==
    {<<f>> : f \in FieldsA}
    \cup {<<f, g>> : f \in FieldsA, g \in {SameNameField, OtherNameField}}
    \cup {<<g, f>> : f \in FieldsA, g \in {SameNameField, OtherNameField}}

RecordsA == {StructOf("A", fields, "", inline) : fields \in FieldListsA, inline \in BOOLEAN}

\* NewBuilder(schemaID): no struct map yet.
NewBuilder(schemaID) == [schemaID |-> schemaID, structMap |-> <<>>]

\* SetStructMap(structMap).
SetStructMap(b, structMap) == [b EXCEPT !.structMap = <<structMap>>]

InitBuild ==
    /\ pc = "new"
    /\ \E schemaID \in {"", "https://example.com/schemas"} : builder = NewBuilder(schemaID)
    /\ \E a \in RecordsA, b \in RecordsB :
          structs = [n \in {"A", "B", "C"} |-> CASE n = "A" -> a [] n = "B" -> b [] OTHER -> RecordC]
    /\ target = ""
    /\ built = NotBuilt
    /\ IdleGraph
    /\ IdleRules
    /\ IdleRebuild
    /\ IdleGen
    /\ IdleExpand
    /\ IdleSplit

\* builder.SetStructMap with the records at hand.
BuildSetStructMap ==
    /\ pc = "new"
    /\ builder' = SetStructMap(builder, structs)
    /\ pc' = "configured"
    /\ UNCHANGED <<splitVars, expandVars, structs, target, built, graphVars, ruleVars, rebuildVars, genVars>>

\* builder.BuildSchema(structInfo, NewRefTracker()) for a record at hand.
BuildBuildSchema ==
    /\ pc \in {"new", "configured"}
    /\ \E name \in DOMAIN structs :
          /\ target' = name
          /\ built' = BuildSchema(builder, structs[name], NewRefTracker)
    /\ pc' = "built"
    /\ UNCHANGED <<splitVars, expandVars, builder, structs, graphVars, ruleVars, rebuildVars, genVars>>

NextBuild == BuildSetStructMap \/ BuildBuildSchema

SpecBuild == InitBuild /\ [][NextBuild]_vars

\* ----------------------------------------- SpecRebuild: derivations anew
\* One builder derives records again and again.  The caller passes a record
\* at hand with either inline preference, and with the tracker of the
\* derivation before or with a new one.
RebuildFieldsA ==
    {FieldOf("F", "f", t, ValidateTag(<<Part("required")>>), "", FALSE, FALSE) :
        t \in {StructT("B"), SliceT(MapT(StructT("C"))), StructT("A")}}

RebuildRecordsA ==
    {StructOf("A", fields, "", FALSE) :
        fields \in {<<f>> : f \in RebuildFieldsA} \cup {<<f, OtherNameField>> : f \in RebuildFieldsA}}

\* The derivations told apart: the record's name, its inline preference, and
\* whether the builder has a struct map.
DerivationKeys == {"A", "B", "C"} \X BOOLEAN \X BOOLEAN

InitRebuild ==
    /\ pc = "new"
    /\ builder = NewBuilder("https://example.com/schemas")
    /\ \E a \in RebuildRecordsA, b \in RecordsB :
          structs = [n \in {"A", "B", "C"} |-> CASE n = "A" -> a [] n = "B" -> b [] OTHER -> RecordC]
    /\ target = ""
    /\ built = NotBuilt
    /\ tracker = NewRefTracker
    /\ docs = [k \in DerivationKeys |-> <<>>]
    /\ count = 0
    /\ IdleGraph
    /\ IdleRules
    /\ IdleGen
    /\ IdleExpand
    /\ IdleSplit

\* builder.SetStructMap with the records at hand.
RebuildSetStructMap ==
    /\ builder.structMap = <<>>
    /\ builder' = SetStructMap(builder, structs)
    /\ UNCHANGED <<splitVars, expandVars, pc, structs, target, built, graphVars, ruleVars, rebuildVars, genVars>>

\* builder.BuildSchema(structInfo, refTracker) once more.
RebuildBuildSchema ==
    /\ count < MaxDerivations
    /\ \E name \in DOMAIN structs, inline \in BOOLEAN, rt \in {tracker, NewRefTracker} :
          LET r == BuildSchema(builder, [structs[name] EXCEPT !.Inline = inline], rt)
              key == <<name, inline, builder.structMap # <<>> >>
          IN  /\ target' = name
              /\ built' = r
              /\ tracker' = r.rt
              /\ docs' = [docs EXCEPT ![key] = Append(@, [schema |-> r.schema, err |-> r.err])]
    /\ count' = count + 1
    /\ pc' = "built"
    /\ UNCHANGED <<splitVars, expandVars, builder, structs, graphVars, ruleVars, genVars>>

NextRebuild == RebuildSetStructMap \/ RebuildBuildSchema

SpecRebuild == InitRebuild /\ [][NextRebuild]_vars

\* ------------------------------------------- SpecGen: GenerateFromPaths
\* The paths hold the records `structs`, those of `annotated` with a +schema
\* annotation.  A record has one field per record it refers to.
GenNames == {"A", "B", "C"}

NameOrder == [n \in GenNames |-> CASE n = "A" -> 1 [] n = "B" -> 2 [] OTHER -> 3]

\* The lists of at most n names, in the order of the names.
RefLists(n) ==
    {l \in SeqsUpTo(GenNames, n) : \A i, j \in 1..Len(l) : i < j => NameOrder[l[i]] < NameOrder[l[j]]}

RefField(m) ==
    FieldOf("To" \o m, ToLower(m),
            IF m = "C" THEN SliceT(PointerT(StructT(m))) ELSE StructT(m),
            NoTags, "", FALSE, FALSE)

GenRecord(name, refs, inline) ==
    StructOf(name, [i \in 1..Len(refs) |-> RefField(refs[i])], "", inline)

\* What the paths may hold under a name: nothing (<<>>), a record without
\* annotation, a record with +schema, a record with +schema:inline.  C
\* refers to at most one record and is not inline.
NoRecord == [annotated |-> FALSE, record |-> <<>>]
GenChoices(name) ==
    LET lists == IF name = "C" THEN RefLists(1) ELSE RefLists(MaxRefs)
    IN  (IF name = "A" THEN {} ELSE {NoRecord})
        \cup (IF name = "A" THEN {}
              ELSE {[annotated |-> FALSE, record |-> <<GenRecord(name, l, FALSE)>>] : l \in lists})
        \cup {[annotated |-> TRUE, record |-> <<GenRecord(name, l, inline)>>] :
                 l \in lists, inline \in (IF name = "C" THEN {FALSE} ELSE BOOLEAN)}

\* containsDot(s), by the names that hold a dot.
DottedNames == {"pkg.T", "time.Time"}
containsDot(s) == s \in DottedNames

\* g.findReferencedStruct(name, paths): the record of that name the paths
\* hold, <<>> for nil.
findReferencedStruct(name) == IF name \in DOMAIN structs THEN <<structs[name]>> ELSE <<>>

RECURSIVE AddDependencies(_, _, _, _)
\* `for _, ref := range refs { depGraph.AddDependency(from, ref) }`, from
\* index i on.
AddDependencies(dg, from, refs, i) ==
    IF i > Len(refs) THEN dg
    ELSE AddDependencies(AddDependency(dg, from, refs[i]), from, refs, i + 1)

\* The names of allStructs, in order.
TypeNamesOf(allStructs) == [i \in 1..Len(allStructs) |-> allStructs[i].Name]

\* No record needed as a file.
RefsNeededNone(allStructs, dg) == {}

\* The dependencies of all records, inline or not.
RefsNeededOfAll(allStructs, dg) ==
    UNION {Range(GetDependencies(dg, allStructs[i].Name)) : i \in 1..Len(allStructs)}

\* refsNeededAsFiles: the dependencies of the records that are not inline.
RefsNeededAsFiles(allStructs, dg) ==
    UNION {Range(GetDependencies(dg, allStructs[i].Name)) :
              i \in {j \in 1..Len(allStructs) : ~allStructs[j].Inline}}

InitGen ==
    /\ pc = "start"
    /\ builder = NewBuilder("")
    /\ \E a \in GenChoices("A"), b \in GenChoices("B"), c \in GenChoices("C") :
          LET choice == [n \in GenNames |-> CASE n = "A" -> a [] n = "B" -> b [] OTHER -> c]
          IN  /\ structs = [n \in {m \in GenNames : choice[m].record # <<>>} |-> choice[n].record[1]]
              /\ annotated = {n \in GenNames : choice[n].annotated}
    /\ gen = <<>>
    /\ written = <<>>
    /\ lookups = <<>>
    /\ dependencies = NewDependencyGraph
    /\ topoIn = <<>>
    /\ topoOut = NoTopo
    /\ dcOut = NoDetect
    /\ target = ""
    /\ built = NotBuilt
    /\ IdleRules
    /\ IdleRebuild
    /\ IdleExpand
    /\ IdleSplit

\* The paths are parsed, the annotated records collected in the order the
\* files give, and the struct map and the set of annotated names are built.
\* The first record is collected a second time when a last path leads to its
\* file again.
GenParse ==
    /\ pc = "start"
    /\ \E order \in Perms(annotated), again \in BOOLEAN :
          LET names == IF again /\ order # <<>> THEN Append(order, order[1]) ELSE order
              allStructs == [i \in 1..Len(names) |-> structs[names[i]]]
          IN  gen' = [allStructs |-> allStructs,
                      structMap |-> [n \in annotated |-> structs[n]],
                      annotatedStructs |-> annotated,
                      allRefs |-> {}, resolved |-> {}, pending |-> {}, foundNew |-> FALSE,
                      sortedTypes |-> <<>>, refsNeededAsFiles |-> {}, i |-> 1,
                      err |-> IF Len(order) = 0 THEN "no exported structs found" ELSE ""]
    /\ pc' = IF annotated = {} THEN "done" ELSE "analyze"
    /\ dependencies' = NewDependencyGraph
    /\ UNCHANGED <<splitVars, expandVars, topoIn, topoOut, dcOut, ruleVars, buildVars, rebuildVars, annotated, written, lookups>>

\* One iteration of the loop that analyzes the references of allStructs; the
\* auto-resolution starts after the last.
GenAnalyze ==
    /\ pc = "analyze"
    /\ LET structInfo == gen.allStructs[gen.i]
           r == BuildSchemaWithRefs(builder, structInfo)
           last == gen.i = Len(gen.allStructs)
       IN  IF r.err # ""
           THEN /\ gen' = [gen EXCEPT !.err = "analyze refs"]
                /\ pc' = "done"
                /\ UNCHANGED dependencies
           ELSE /\ \E refs \in Perms(r.refs) :
                      dependencies' = AddDependencies(dependencies, structInfo.Name, refs, 1)
                /\ gen' = [gen EXCEPT !.allRefs = @ \cup r.refs,
                                      !.i = @ + 1,
                                      !.pending = IF last THEN gen.allRefs \cup r.refs ELSE @]
                /\ pc' = IF last THEN "resolve" ELSE "analyze"
    /\ UNCHANGED <<splitVars, expandVars, topoIn, topoOut, dcOut, ruleVars, buildVars, rebuildVars, annotated, written, lookups>>

\* A marking that marks nothing.
MarkResolvedNever(resolved, ref) == resolved

\* `resolved[ref] = true`
MarkResolved(resolved, ref) == resolved \cup {ref}

\* A foundNew that no new reference sets.
FoundNewNever(foundNew, allRefs, newRefs) == foundNew

\* foundNew after the loop over newRefs: set when one of them is not yet in
\* allRefs.
FoundNew(foundNew, allRefs, newRefs) == foundNew \/ (newRefs \ allRefs # {})

\* A lookup failure that ends the run with an error.
NotFoundAborts(g, rest, ref) ==
    [g EXCEPT !.pending = rest, !.resolved = MarkResolved(@, ref),
              !.err = "find referenced struct"]

\* `if refStruct == nil`: the name is marked, a warning is printed, and the
\* range goes on with the next name.
NotFound(g, rest, ref) ==
    [g EXCEPT !.pending = rest, !.resolved = MarkResolved(@, ref)]

\* One iteration of `for ref := range allRefs` of the auto-resolution.  The
\* range takes the entries of the map in any order; an entry added during the
\* range is produced by it or skipped (S holds those it produces).
GenResolve ==
    /\ pc = "resolve"
    /\ gen.pending # {}
    /\ \E ref \in gen.pending :
          LET rest == gen.pending \ {ref}
              skip == ref \in DOMAIN gen.structMap \/ ref \in gen.resolved
              refStruct == findReferencedStruct(ref)
              r == BuildSchemaWithRefs(builder, refStruct[1])
          IN  IF skip
              THEN /\ gen' = [gen EXCEPT !.pending = rest]
                   /\ UNCHANGED <<dependencies, lookups>>
              ELSE IF containsDot(ref)
              THEN /\ gen' = [gen EXCEPT !.pending = rest, !.resolved = MarkResolved(@, ref)]
                   /\ UNCHANGED <<dependencies, lookups>>
              ELSE IF refStruct = <<>>
              THEN /\ gen' = NotFound(gen, rest, ref)
                   /\ lookups' = Append(lookups, ref)
                   /\ UNCHANGED dependencies
              ELSE IF r.err # ""
              THEN /\ gen' = [gen EXCEPT !.pending = rest, !.resolved = MarkResolved(@, ref),
                                         !.structMap = [n \in DOMAIN @ \cup {ref} |->
                                                           IF n = ref THEN refStruct[1] ELSE @[n]],
                                         !.allStructs = Append(@, refStruct[1])]
                   /\ lookups' = Append(lookups, ref)
                   /\ UNCHANGED dependencies
              ELSE /\ \E newRefs \in Perms(r.refs), S \in SUBSET (r.refs \ gen.allRefs) :
                        /\ dependencies' = AddDependencies(dependencies, ref, newRefs, 1)
                        /\ gen' = [gen EXCEPT !.pending = rest \cup S,
                                              !.resolved = MarkResolved(@, ref),
                                              !.structMap = [n \in DOMAIN @ \cup {ref} |->
                                                                IF n = ref THEN refStruct[1] ELSE @[n]],
                                              !.allStructs = Append(@, refStruct[1]),
                                              !.allRefs = @ \cup r.refs,
                                              !.foundNew = FoundNew(@, gen.allRefs, r.refs)]
                   /\ lookups' = Append(lookups, ref)
    /\ UNCHANGED <<splitVars, expandVars, pc, topoIn, topoOut, dcOut, ruleVars, buildVars, rebuildVars, annotated, written>>

\* The end of one range over allRefs: another one when a new reference was
\* found, else the loop is left.
GenResolveEnd ==
    /\ pc = "resolve"
    /\ gen.pending = {}
    /\ IF gen.foundNew
       THEN /\ gen' = [gen EXCEPT !.pending = gen.allRefs, !.foundNew = FALSE]
            /\ pc' = "resolve"
       ELSE /\ gen' = gen
            /\ pc' = "check"
    /\ UNCHANGED <<splitVars, expandVars, graphVars, ruleVars, buildVars, rebuildVars, annotated, written, lookups>>

\* SetStructMap, DetectCircular, TopologicalSort of the names of allStructs,
\* and refsNeededAsFiles.
GenCheck ==
    /\ pc = "check"
    /\ builder' = SetStructMap(builder, gen.structMap)
    /\ \E order \in Perms(DOMAIN dependencies) :
          LET dc == DetectCircular(dependencies, order)
              ts == TopologicalSort(dependencies, TypeNamesOf(gen.allStructs))
          IN  /\ dcOut' = dc
              /\ IF dc.found
                 THEN /\ gen' = [gen EXCEPT !.err = "circular dependency detected"]
                      /\ pc' = "done"
                      /\ UNCHANGED <<topoIn, topoOut>>
                 ELSE /\ topoIn' = TypeNamesOf(gen.allStructs)
                      /\ topoOut' = ts
                      /\ IF ts.err # ""
                         THEN /\ gen' = [gen EXCEPT !.err = "dependency sort"]
                              /\ pc' = "done"
                         ELSE /\ gen' = [gen EXCEPT
                                           !.sortedTypes = ts.result,
                                           !.refsNeededAsFiles = RefsNeededAsFiles(gen.allStructs, dependencies),
                                           !.i = 1]
                              /\ pc' = IF ts.result = <<>> THEN "done" ELSE "generate"
    /\ UNCHANGED <<splitVars, expandVars, dependencies, schemaIn, fieldIn, applied, structs, target, built,
                   rebuildVars, annotated, written, lookups>>

\* GetSchemaFilename(typeName): lowercase(typeName) + ".schema.json".
GetSchemaFilename(typeName) == ToLower(typeName) \o ".schema.json"

\* What writer.WriteSchema(typeName, schema) writes: the schema, into the file
\* of that name in the output directory.
WriteSchema(typeName, schema) ==
    [name |-> typeName, file |-> GetSchemaFilename(typeName), schema |-> schema]

\* One iteration of the loop over sortedTypes: the record is skipped, or it
\* is derived with a new tracker and written.
GenGenerate ==
    /\ pc = "generate"
    /\ LET typeName == gen.sortedTypes[gen.i]
           next == IF gen.i = Len(gen.sortedTypes) THEN "done" ELSE "generate"
           r == BuildSchema(builder, gen.structMap[typeName], NewRefTracker)
       IN  IF \/ typeName \notin DOMAIN gen.structMap
              \/ (typeName \notin gen.annotatedStructs /\ typeName \notin gen.refsNeededAsFiles)
           THEN /\ gen' = [gen EXCEPT !.i = @ + 1]
                /\ pc' = next
                /\ UNCHANGED <<target, built, written>>
           ELSE /\ target' = typeName
                /\ built' = r
                /\ IF r.err # ""
                   THEN /\ gen' = [gen EXCEPT !.err = "build schema"]
                        /\ pc' = "done"
                        /\ UNCHANGED written
                   ELSE /\ written' = Append(written, WriteSchema(typeName, r.schema[1]))
                        /\ gen' = [gen EXCEPT !.i = @ + 1]
                        /\ pc' = next
    /\ UNCHANGED <<splitVars, expandVars, builder, structs, graphVars, ruleVars, rebuildVars, annotated, lookups>>

NextGen == GenParse \/ GenAnalyze \/ GenResolve \/ GenResolveEnd \/ GenCheck \/ GenGenerate

SpecGen == InitGen /\ [][NextGen]_vars

\* ------------------------------------------------- rule claims (SpecRules)
\* The names of the rules a validate tag states, in order: the text before the
\* first "=" of each part that is not blank.
RECURSIVE RuleNames(_)
RuleNames(parts) ==
    IF parts = <<>> THEN <<>>
    ELSE IF Head(parts).name = "" /\ ~Head(parts).eq THEN RuleNames(Tail(parts))
    ELSE <<Head(parts).name>> \o RuleNames(Tail(parts))

\* The rule names of the field ApplyValidation was given.
NamesIn == IF "validate" \in DOMAIN fieldIn.Tags THEN RuleNames(fieldIn.Tags["validate"]) ELSE <<>>

\* The names before and after the first dive of a list that holds one.
AfterDive(names) ==
    LET d == CHOOSE i \in 1..Len(names) : names[i] = "dive" /\ \A j \in 1..(i - 1) : names[j] # "dive"
    IN  SubSeq(names, d + 1, Len(names))
BeforeFirstDive(names) ==
    LET d == CHOOSE i \in 1..Len(names) : names[i] = "dive" /\ \A j \in 1..(i - 1) : names[j] # "dive"
    IN  SubSeq(names, 1, d - 1)

\* ApplyValidation ran on an array schema with items and a rule list with dive.
C8_DiveCase ==
    /\ pc = "applied"
    /\ schemaIn.Type = "array"
    /\ schemaIn.Items # <<>>
    /\ "dive" \in Range(NamesIn)

\* C8: on an array schema with items, a rule list with dive is split at the
\* first dive: required, an enumeration, a format and a pattern reach the
\* array exactly when their rule stands before it, and the items exactly when
\* it stands after it (a length bound reaches items of type string the same
\* way); `required,dive,oneof=a b` on a slice of strings gives a required
\* array without enumeration whose items have the enumeration [a, b].
C8_DiveSplits ==
    C8_DiveCase =>
        LET before == Range(BeforeFirstDive(NamesIn))
            after == Range(AfterDive(NamesIn))
            arr == applied.schema
            items == applied.schema.Items[1]
        IN  /\ applied.isRequired <=> "required" \in before
            /\ arr.Enum = (IF "oneof" \in before THEN <<"a", "b">> ELSE <<>>)
            /\ items.Enum = (IF "oneof" \in after THEN <<"a", "b">> ELSE <<>>)
            /\ arr.Format = (IF "email" \in before THEN "email" ELSE "")
            /\ items.Format = (IF "email" \in after THEN "email" ELSE "")
            /\ arr.Pattern # "" <=> "numeric" \in before
            /\ items.Pattern # "" <=> "numeric" \in after
            /\ arr.MinLength = <<>>
            /\ schemaIn.Items[1].Type = "string" => (items.MinLength # <<>> <=> "min" \in after)
            /\ (/\ fieldIn.Tags["validate"] = <<Part("required"), Part("dive"), PartP("oneof", "a b")>>
                /\ schemaIn.Items[1].Type = "string")
               => /\ applied.isRequired
                  /\ items.Enum = <<"a", "b">>
                  /\ arr.Enum = <<>>

\* C8 witness: `required,dive,oneof=a b` was applied to a slice of strings.
C8_Witness ==
    /\ C8_DiveCase
    /\ fieldIn.Tags["validate"] = <<Part("required"), Part("dive"), PartP("oneof", "a b")>>
    /\ schemaIn.Items[1] = TypeSchema("string")
    /\ applied.schema.Items[1].Enum = <<"a", "b">>

\* ------------------------------------------- derivation claims (SpecBuild)
RECURSIVE RecordUnder(_)
\* The local exported record a type leads to through pointers, slice and array
\* elements and map values: {name}, or {} when it leads to none.
RecordUnder(t) ==
    IF t.Kind \in {"Pointer", "Slice", "Array", "Map"}
    THEN IF t.ElemType = <<>> THEN {} ELSE RecordUnder(t.ElemType[1])
    ELSE IF t.Kind = "Struct" /\ t.IsExported /\ t.PackageName = "" THEN {t.Name} ELSE {}

\* The field carries a `schema:"type=..."` override.
HasTypeOverride(field) ==
    /\ "schema" \in DOMAIN field.Tags
    /\ \E i \in 1..Len(field.Tags["schema"]) :
          field.Tags["schema"][i].name = "type" /\ field.Tags["schema"][i].eq

\* The names in the field's validate tag.
ValidateNames(field) ==
    IF "validate" \in DOMAIN field.Tags THEN RuleNames(field.Tags["validate"]) ELSE <<>>

\* The property names of a record are pairwise distinct.
DistinctNames(rec) ==
    \A i, j \in 1..Len(rec.Fields) :
        rec.Fields[i].PropertyName = rec.Fields[j].PropertyName => i = j

\* The value of a key of an ordered map that holds the key.
PropertiesGet(props, key) == props[CHOOSE i \in 1..Len(props) : props[i].key = key].value

RECURSIVE ObjectUnder(_)
\* The schema a schema leads to through items and additionalProperties.
ObjectUnder(s) ==
    IF s.Items # <<>> THEN ObjectUnder(s.Items[1])
    ELSE IF s.AdditionalProperties # <<>> THEN ObjectUnder(s.AdditionalProperties[1])
    ELSE s

RECURSIVE LinkPaths(_)
\* The link paths that stand anywhere in a schema.
LinkPaths(s) ==
    (IF s.Ref # "" THEN {s.Ref} ELSE {})
    \cup (IF s.Items # <<>> THEN LinkPaths(s.Items[1]) ELSE {})
    \cup (IF s.AdditionalProperties # <<>> THEN LinkPaths(s.AdditionalProperties[1]) ELSE {})
    \cup (IF s.Properties # <<>>
          THEN UNION {LinkPaths(s.Properties[1][i].value) : i \in 1..Len(s.Properties[1])}
          ELSE {})

\* The path of the link to a record.
LinkPath(name) == ToLower(name) \o ".schema.json"

\* The record names a link may point at.
LinkNames == {"A", "B", "C", "D"}

\* A derivation of a record that does not prefer inline has returned a document.
C4_Case ==
    /\ pc = "built"
    /\ ~structs[target].Inline
    /\ built.err = ""

\* The field's property is the link to record n and nothing is expanded there.
C4_IsLink(doc, field, n) ==
    LET o == ObjectUnder(PropertiesGet(doc.Properties[1], field.PropertyName))
    IN  o.Ref = LinkPath(n) /\ o.Properties = <<>>

\* The names the tracker holds are those the document's links point at.
C4_TrackerIsLinks ==
    built.rt[1] = {n \in LinkNames : LinkPath(n) \in LinkPaths(built.schema[1])}

\* C4 as stated: in the document of a record that does not prefer inline,
\* derived with a tracker, every field whose type leads to a local exported
\* record is a link to lowercase(name).schema.json, not expanded, and the
\* tracker holds exactly the names the document's links point at.
C4_AsStated ==
    C4_Case =>
        /\ \A i \in 1..Len(structs[target].Fields) :
              \A n \in RecordUnder(structs[target].Fields[i].Type) :
                  C4_IsLink(built.schema[1], structs[target].Fields[i], n)
        /\ C4_TrackerIsLinks

\* C4: the same for a record whose property names are pairwise distinct, of
\* the fields that carry no schema-type override.
C4_LinksAndTracker ==
    (C4_Case /\ DistinctNames(structs[target])) =>
        /\ \A i \in 1..Len(structs[target].Fields) :
              ~HasTypeOverride(structs[target].Fields[i]) =>
                  \A n \in RecordUnder(structs[target].Fields[i].Type) :
                      C4_IsLink(built.schema[1], structs[target].Fields[i], n)
        /\ C4_TrackerIsLinks

\* A record with two differently named fields, one a slice of maps of B, both
\* links, has been derived in reference mode.
C4_Witness ==
    /\ C4_Case
    /\ target = "A"
    /\ Len(structs["A"].Fields) = 2
    /\ DistinctNames(structs["A"])
    /\ \E i \in 1..2 : structs["A"].Fields[i].Type = SliceT(MapT(StructT("B")))
                       /\ ~HasTypeOverride(structs["A"].Fields[i])
    /\ built.rt[1] = {"B", "C"}

\* The records a record refers to: those its fields without a schema-type
\* override lead to.
RefsOf(rec) ==
    UNION {RecordUnder(rec.Fields[i].Type) :
              i \in {j \in 1..Len(rec.Fields) : ~HasTypeOverride(rec.Fields[j])}}

\* The reference edges among the records at hand and the names they mention.
RefEdges == UNION {{<<n, m>> : m \in RefsOf(structs[n])} : n \in DOMAIN structs}

\* A record that prefers inline has been derived against a struct map that
\* holds every record it refers to, directly or not, and none of these refers
\* back to itself or to the record.
C5_Case ==
    /\ pc = "built"
    /\ builder.structMap # <<>>
    /\ structs[target].Inline
    /\ Closure(RefEdges, {target}) \subseteq DOMAIN structs
    /\ \A n \in Closure(RefEdges, {target}) : n \notin ReachableFrom(RefEdges, n)

RECURSIVE C5_Expanded(_, _)
\* Schema s holds the fields of record rec, every record a field refers to
\* expanded where the field's property leads: an object with the properties
\* and the required list of that record's own inline schema.
C5_Expanded(s, rec) ==
    /\ s.Type = "object"
    /\ s.Properties # <<>>
    /\ \A i \in 1..Len(rec.Fields) :
          ~HasTypeOverride(rec.Fields[i]) =>
              \A n \in RecordUnder(rec.Fields[i].Type) :
                  LET o == ObjectUnder(PropertiesGet(s.Properties[1], rec.Fields[i].PropertyName))
                  IN  /\ o.Ref = ""
                      /\ o.Properties # <<>>
                      /\ [j \in 1..Len(o.Properties[1]) |-> o.Properties[1][j].key]
                           = [j \in 1..Len(structs[n].Fields) |-> structs[n].Fields[j].PropertyName]
                      /\ C5_Expanded(o, structs[n])

\* The derivation succeeded, every record referred to is expanded in place,
\* the document holds no link and the tracker is as it was passed.
C5_Conclusion ==
    /\ built.err = ""
    /\ built.schema # <<>>
    /\ C5_Expanded(built.schema[1], structs[target])
    /\ LinkPaths(built.schema[1]) = {}
    /\ built.rt = NewRefTracker

NamesBeforeDive(names) ==
    IF "dive" \in Range(names) THEN Range(BeforeFirstDive(names)) ELSE Range(names)

\* A derivation has returned a document.
Derived_Case == pc = "built" /\ built.err = ""

\* The field's validation rule list holds `required` and its omit-if-empty
\* flag is false.
C6_RequiredField(field) == "required" \in Range(ValidateNames(field)) /\ ~field.OmitEmpty

\* The schema the rules of the field are applied to is an array with items:
\* the field is a slice or an array under its pointers and carries no
\* schema-type override.
C6_ArrayField(field) ==
    /\ ~HasTypeOverride(field)
    /\ Underlying(field.Type).Kind \in {"Slice", "Array"}
    /\ Underlying(field.Type).ElemType # <<>>

\* C6 as stated: every field of a derived record whose rule list holds
\* `required`, at any position, and whose omit-if-empty flag is false has its
\* property name in the required list of the document.
C6_AsStated ==
    Derived_Case =>
        \A i \in 1..Len(structs[target].Fields) :
            C6_RequiredField(structs[target].Fields[i]) =>
                structs[target].Fields[i].PropertyName \in Range(built.schema[1].Required)

\* C6: the same for `required` standing before the first `dive` of the rule
\* list when the field is a slice or an array without schema-type override,
\* and at any position otherwise.
C6_RequiredListed ==
    Derived_Case =>
        \A i \in 1..Len(structs[target].Fields) :
            LET field == structs[target].Fields[i]
            IN  (/\ ~field.OmitEmpty
                 /\ IF C6_ArrayField(field)
                    THEN "required" \in NamesBeforeDive(ValidateNames(field))
                    ELSE "required" \in Range(ValidateNames(field)))
                => field.PropertyName \in Range(built.schema[1].Required)

\* A record whose one field, a slice, carries `required` before `dive` has
\* been derived and the field is listed.
C6_Witness ==
    /\ Derived_Case
    /\ target = "A"
    /\ \E i \in 1..Len(structs["A"].Fields) :
          LET field == structs["A"].Fields[i]
          IN  /\ ~field.OmitEmpty
              /\ ValidateNames(field) = <<"required", "dive", "oneof">>
              /\ C6_ArrayField(field)
              /\ built.schema[1].Required = <<"f">>
    /\ structs["A"].Fields[1].PropertyName = "f"
    /\ Len(structs["A"].Fields) = 1

RECURSIVE C7_NoOmitEmpty(_, _)
\* The required list of schema s, the schema of record rec, holds no property
\* name of a field of rec with the omit-if-empty flag, and so for every record
\* expanded below a property of s.
C7_NoOmitEmpty(s, rec) ==
    /\ \A i \in 1..Len(rec.Fields) :
          rec.Fields[i].OmitEmpty => rec.Fields[i].PropertyName \notin Range(s.Required)
    /\ \A i \in 1..Len(rec.Fields) :
          ~HasTypeOverride(rec.Fields[i]) =>
              \A n \in RecordUnder(rec.Fields[i].Type) \cap DOMAIN structs :
                  LET o == ObjectUnder(PropertiesGet(s.Properties[1], rec.Fields[i].PropertyName))
                  IN  o.Properties # <<>> => C7_NoOmitEmpty(o, structs[n])

\* C7: in a document derived from records with pairwise distinct property
\* names, the required list of the document and of every sub-schema expanded
\* in place holds no property name of a field whose omit-if-empty flag is set.
C7_RequiredExcludesOmitEmpty ==
    (Derived_Case /\ \A n \in DOMAIN structs : DistinctNames(structs[n]))
        => C7_NoOmitEmpty(built.schema[1], structs[target])

\* A record with an omit-if-empty field that carries `required` has been
\* derived, and expanded in place below it stands record C, which has another.
C7_Witness ==
    /\ Derived_Case
    /\ target = "A"
    /\ DistinctNames(structs["A"])
    /\ \E i \in 1..Len(structs["A"].Fields) :
          /\ structs["A"].Fields[i].Name = "F"
          /\ structs["A"].Fields[i].OmitEmpty
          /\ "required" \in Range(ValidateNames(structs["A"].Fields[i]))
          /\ RecordUnder(structs["A"].Fields[i].Type) = {"B"}
          /\ ObjectUnder(PropertiesGet(built.schema[1].Properties[1], "f")).Properties # <<>>

RECURSIVE C9_BareLinks(_)
\* Every schema in s that carries a link carries nothing else structural.
C9_BareLinks(s) ==
    /\ s.Ref # "" =>
          /\ s.Type = "" /\ s.Format = "" /\ s.Pattern = "" /\ s.ContentEncoding = ""
          /\ s.Enum = <<>> /\ s.MinLength = <<>> /\ s.MaxLength = <<>>
          /\ s.Minimum = "" /\ s.Maximum = ""
          /\ s.ExclusiveMinimum = "" /\ s.ExclusiveMaximum = ""
          /\ s.Items = <<>> /\ s.AdditionalProperties = <<>>
    /\ s.Items # <<>> => C9_BareLinks(s.Items[1])
    /\ s.AdditionalProperties # <<>> => C9_BareLinks(s.AdditionalProperties[1])
    /\ s.Properties # <<>> =>
          \A i \in 1..Len(s.Properties[1]) : C9_BareLinks(s.Properties[1][i].value)

\* C9: in every derived document a property schema that carries a link
\* carries no other structural constraint, whatever the rules of the field.
C9_LinkCarriesNothingElse == Derived_Case => C9_BareLinks(built.schema[1])

\* ------------------------------------------ rederivation claims (SpecRebuild)
\* C10: the derivations of one record with one inline preference and one
\* struct map yield the same document (properties in the same order, the same
\* required list, the same link paths) or the same error, whatever the builder
\* and the tracker hold from the derivations before.
C10_SameDocument ==
    \A key \in DOMAIN docs :
        \A i, j \in 1..Len(docs[key]) : docs[key][i] = docs[key][j]

\* A record with links has been derived twice and record B once, and the
\* tracker of the last derivation, of A, holds B and C.
C10_Witness ==
    /\ count = 3
    /\ Len(docs[<<"A", FALSE, TRUE>>]) = 2
    /\ Len(docs[<<"B", TRUE, TRUE>>]) = 1
    /\ target = "A"
    /\ docs[<<"A", FALSE, TRUE>>][1].schema # <<>>
    /\ LinkPaths(docs[<<"A", FALSE, TRUE>>][1].schema[1]) # {}
    /\ built.rt[1] = {"B", "C"}

\* ------------------------------------------------ run claims (SpecGen)
\* The records the run resolves: the annotated ones and those the paths hold
\* that these refer to, directly or through resolved records.
ResolvedRecords ==
    Closure({e \in RefEdges : e[2] \in DOMAIN structs}, annotated)

\* The dependency graph of the resolved records in forced reference mode.
ResolvedEdges == {e \in RefEdges : e[1] \in ResolvedRecords}

\* Two resolved records refer to each other.
C1_Cycle ==
    \E a, b \in ResolvedRecords :
        a # b /\ <<a, b>> \in ResolvedEdges /\ <<b, a>> \in ResolvedEdges

\* C1: when two resolved records refer to each other, whatever their inline
\* preference and whether annotated or auto-resolved, no run of
\* GenerateFromPaths calls WriteSchema, and the run ends with the circular
\* dependency error.
C1_CycleStopsBeforeWriting ==
    C1_Cycle =>
        /\ written = <<>>
        /\ pc = "done" => gen.err = "circular dependency detected"

\* A run has ended in which the inline record A and the record B, found by
\* auto-resolution, refer to each other.
C1_Witness ==
    /\ pc = "done"
    /\ C1_Cycle
    /\ structs["A"].Inline
    /\ "B" \in DOMAIN structs
    /\ "B" \notin annotated
    /\ "B" \in Range(lookups)
    /\ {<<"A", "B">>, <<"B", "A">>} \subseteq ResolvedEdges

\* C11: in a run, a document is written only for a record that carries the
\* annotation or that a resolved record which does not prefer inline refers
\* to; and the set of annotated names the run keeps is the set of the records
\* that carry the annotation, whatever the auto-resolution adds.
C11_WrittenOnlyIfMarkedOrLinked ==
    pc # "start" =>
        /\ \A k \in 1..Len(written) :
              \/ written[k].name \in annotated
              \/ \E i \in 1..Len(gen.allStructs) :
                    /\ ~gen.allStructs[i].Inline
                    /\ written[k].name \in RefsOf(gen.allStructs[i])
        /\ gen.annotatedStructs = annotated
        /\ \A n \in Range(lookups) : n \notin gen.annotatedStructs

\* A run has ended without error in which auto-resolution found B and C, B,
\* which C refers to, was written, and C, which only the inline record A
\* refers to, was not.
C11_Witness ==
    /\ pc = "done"
    /\ gen.err = ""
    /\ annotated = {"A"}
    /\ structs["A"].Inline
    /\ {"B", "C"} \subseteq DOMAIN gen.structMap
    /\ {"B", "C"} \subseteq Range(lookups)
    /\ {written[k].name : k \in 1..Len(written)} = {"A", "B"}

\* The names of the documents written so far.
WrittenNames == {written[k].name : k \in 1..Len(written)}

\* The names the documents written so far link to.
LinkedNames ==
    {n \in LinkNames : \E k \in 1..Len(written) : LinkPath(n) \in LinkPaths(written[k].schema)}

\* C12: at the end of a run, an auto-resolved record that no written document
\* links to (it is expanded inline where it is used) has no document of its
\* own, also when only another auto-resolved record, itself only expanded
\* inline, refers to it.
C12_OnlyInlinedNotWritten ==
    (pc = "done" /\ gen.err = "") =>
        \A n \in DOMAIN gen.structMap \ annotated :
            n \notin LinkedNames => n \notin WrittenNames

\* The auto-resolution loop of the run has been left.
LoopExited ==
    \/ pc \in {"check", "generate"}
    \/ pc = "done" /\ gen.err \notin {"no exported structs found", "analyze refs"}

\* C13: once the auto-resolution loop is left, every name without a dot that
\* a record of the struct map refers to is in the struct map, or it was
\* looked up and the paths hold no record of that name.
C13_ResolvedClosed ==
    LoopExited =>
        \A n \in DOMAIN gen.structMap :
            \A m \in RefsOf(gen.structMap[n]) :
                ~containsDot(m) =>
                    \/ m \in DOMAIN gen.structMap
                    \/ m \in Range(lookups) /\ m \notin DOMAIN structs

\* The loop has been left after it found B, which A refers to, and looked up
\* C, which only B refers to and the paths do not hold.
C13_Witness ==
    /\ pc = "check"
    /\ lookups = <<"B", "C">>
    /\ annotated = {"A"}
    /\ RefsOf(structs["A"]) = {"B"}
    /\ "C" \in RefsOf(structs["B"])
    /\ "C" \notin DOMAIN structs

\* No name stands twice in the list of lookups.
LookedUpOnce == \A i, j \in 1..Len(lookups) : lookups[i] = lookups[j] => i = j

\* The names a record of a run can refer to.
NameUniverse == GenNames \cup DottedNames

\* A number that bounds the steps the auto-resolution loop can still take:
\* the names not yet in allRefs count most, then a pending further range,
\* then the entries the range at hand has yet to visit.
ResolveMeasure ==
    IF pc # "resolve" THEN 0
    ELSE 1 + Cardinality(gen.pending)
           + (Cardinality(NameUniverse) + 1) * (IF gen.foundNew THEN 1 ELSE 0)
           + 2 * (Cardinality(NameUniverse) + 1) * Cardinality(NameUniverse \ gen.allRefs)

\* C14: every step of the auto-resolution loop lowers a natural number, so
\* the loop is left after finitely many steps; and findReferencedStruct is
\* called at most once with each name, a name it did not find included.
C14_LoopEndsLookupsOnce ==
    [][/\ pc = "resolve" => ResolveMeasure' < ResolveMeasure
       /\ LookedUpOnce']_vars

\* The loop has been left after two lookups, one of them of a name that two
\* records refer to and the paths do not hold.
C14_Witness ==
    /\ pc = "check"
    /\ Len(lookups) = 2
    /\ "B" \in Range(lookups)
    /\ "B" \notin DOMAIN structs
    /\ "B" \in RefsOf(structs["A"])
    /\ "C" \in DOMAIN structs /\ "C" \notin annotated
    /\ RefsOf(structs["C"]) = {"B"}

\* The names that were looked up and that the paths do not hold.
FailedLookups == {n \in Range(lookups) : n \notin DOMAIN structs}

RECURSIVE C15_Opaque(_, _, _)
\* In schema s, the schema of record rec, every property of a field that
\* refers to a name looked up in vain leads to a bare object without link,
\* and so in every record expanded in place below s when rec is expanded.
C15_Opaque(s, rec, inline) ==
    \A i \in 1..Len(rec.Fields) :
        \A m \in RecordUnder(rec.Fields[i].Type) :
            LET o == ObjectUnder(PropertiesGet(s.Properties[1], rec.Fields[i].PropertyName))
            IN  IF m \in FailedLookups
                THEN o.Type = "object" /\ o.Ref = "" /\ o.Properties = <<>>
                ELSE (inline /\ m \in DOMAIN gen.structMap /\ o.Properties # <<>>)
                         => C15_Opaque(o, gen.structMap[m], inline)

\* C15: in every written document, of a record that prefers inline or not, a
\* property that refers to a record the auto-resolution did not find is a
\* bare object: type object and no link.
C15_UnresolvedIsOpaque ==
    \A k \in 1..Len(written) :
        C15_Opaque(written[k].schema, gen.structMap[written[k].name],
                   gen.structMap[written[k].name].Inline)


\* A run has ended, a lookup of a referenced record failed in it, and the
\* references of the resolved records form no cycle.
C16_Case ==
    /\ pc = "done"
    /\ FailedLookups # {}
    /\ ~HasCycle(ResolvedEdges)

\* C16: a failed lookup does not end the run: while lookups have failed no
\* error is set before the loop is left, every findable record that a resolved
\* record refers to is resolved all the same, and when the references form no
\* cycle the run ends without error with a document written for every
\* annotated record.
C16_FailedLookupNeverAborts ==
    /\ (pc = "resolve" /\ FailedLookups # {}) => gen.err = ""
    /\ (LoopExited /\ FailedLookups # {}) => ResolvedRecords \subseteq DOMAIN gen.structMap
    /\ C16_Case => (gen.err = "" /\ annotated \subseteq WrittenNames)

\* A run has ended without error in which the lookup of C failed, B was
\* resolved afterwards, and the document of the annotated A is written.
C16_Witness ==
    /\ C16_Case
    /\ annotated = {"A"}
    /\ Len(lookups) = 2
    /\ lookups[1] = "C"
    /\ lookups[2] = "B"
    /\ "C" \in FailedLookups
    /\ "B" \in DOMAIN gen.structMap
    /\ "A" \in WrittenNames
    /\ gen.err = ""


\* ------------------------------------------- SpecInline: chains of records
\* The records A, B, C and D refer to each other: A to at most MaxRefs
\* records, the others to at most one; A and B prefer inline or not; the
\* struct map may lack D.  The derivations are those of SpecBuild.
InlineNames == {"A", "B", "C", "D"}

InlineOrder == [n \in InlineNames |-> CASE n = "A" -> 1 [] n = "B" -> 2 [] n = "C" -> 3 [] OTHER -> 4]

InlineLists(n) ==
    {l \in SeqsUpTo(InlineNames, n) : \A i, j \in 1..Len(l) : i < j => InlineOrder[l[i]] < InlineOrder[l[j]]}

InlineRecord(name, refs, inline) ==
    StructOf(name, [i \in 1..Len(refs) |-> RefField(refs[i])], "", inline)

InitInline ==
    /\ pc = "new"
    /\ builder = NewBuilder("")
    /\ \E la \in InlineLists(MaxRefs), lb, lc, ld \in InlineLists(1),
          ia, ib, hasD \in BOOLEAN :
          structs = [n \in (IF hasD THEN InlineNames ELSE InlineNames \ {"D"}) |->
                        CASE n = "A" -> InlineRecord("A", la, ia)
                          [] n = "B" -> InlineRecord("B", lb, ib)
                          [] n = "C" -> InlineRecord("C", lc, FALSE)
                          [] OTHER -> InlineRecord("D", ld, FALSE)]
    /\ target = ""
    /\ built = NotBuilt
    /\ IdleGraph
    /\ IdleRules
    /\ IdleRebuild
    /\ IdleGen
    /\ IdleExpand
    /\ IdleSplit

SpecInline == InitInline /\ [][NextBuild]_vars

\* ---------------------------------------------------------- Chain claims
\* The reference edges between records of the struct map.
MapEdges == {e \in RefEdges : e[2] \in DOMAIN structs}

\* The last derivation was an inline expansion: the struct map was set and
\* the record derived prefers inline.
C17_Expanding ==
    /\ pc = "built"
    /\ builder.structMap # <<>>
    /\ structs[target].Inline

\* Some chain of references from the record derived comes back to a record
\* of the chain (the record derived included).
C17_ChainReturns ==
    \E n \in Closure(MapEdges, {target}) : n \in ReachableFrom(MapEdges, n)

\* Two fields of the record derived lead, each through another record, to
\* one same record.
C17_Diamond ==
    \E x, y, z \in DOMAIN structs :
        /\ Cardinality({target, x, y, z}) = 4
        /\ {<<target, x>>, <<target, y>>, <<x, z>>, <<y, z>>} \subseteq MapEdges

RECURSIVE C17_Expanded(_, _)
\* Schema s holds the fields of record rec in order, and each property leads
\* to the expansion of the record its field refers to, or to a bare object
\* when the struct map lacks that record.
C17_Expanded(s, rec) ==
    /\ s.Type = "object"
    /\ s.Properties # <<>>
    /\ [j \in 1..Len(s.Properties[1]) |-> s.Properties[1][j].key]
         = [j \in 1..Len(rec.Fields) |-> rec.Fields[j].PropertyName]
    /\ \A i \in 1..Len(rec.Fields) :
          \A n \in RecordUnder(rec.Fields[i].Type) :
              LET o == ObjectUnder(s.Properties[1][i].value)
              IN  /\ o.Ref = ""
                  /\ IF n \in DOMAIN structs
                     THEN C17_Expanded(o, structs[n])
                     ELSE o.Type = "object" /\ o.Properties = <<>>

\* C17: an inline expansion that reaches a record still in progress (the
\* record derived or one on the chain being expanded) ends with an error and
\* no document; one whose chains never come back to a record of their own
\* ends without error and with a document, also when several chains reach
\* one same record (A->B->D and A->C->D expand D twice).
C17_InProgressAbortsRevisitSucceeds ==
    C17_Expanding =>
        IF C17_ChainReturns
        THEN built.err = "circular reference detected" /\ built.schema = <<>>
        ELSE /\ built.err = ""
             /\ built.schema # <<>>
             /\ C17_Expanded(built.schema[1], structs[target])

\* A is expanded in place, refers to B and to C, both refer to D, D refers to
\* nothing, and the derivation ended without error.
C17_Witness ==
    /\ C17_Expanding
    /\ target = "A"
    /\ C17_Diamond
    /\ ~C17_ChainReturns
    /\ {<<"A", "B">>, <<"A", "C">>, <<"B", "D">>, <<"C", "D">>} = MapEdges
    /\ built.err = ""
    /\ built.schema # <<>>


\* -------------------------------------------------- Edge order claims
\* The sequences that hold the entries of s in any order.
Shuffles(s) == {[i \in 1..Len(s) |-> s[p[i]]] : p \in Perms(1..Len(s))}

\* The graphs AddDependency builds from the edges of dg added in another
\* order: every node keeps its dependencies, in any order.
Reorderings(dg) ==
    {f \in [DOMAIN dg -> UNION {Shuffles(dg[n]) : n \in DOMAIN dg}] :
        \A n \in DOMAIN dg : f[n] \in Shuffles(dg[n])}

\* C18: TopologicalSort(names) returns the same result on every graph that
\* holds the same edges, whatever the order in which AddDependency recorded
\* them.
C18_SameSortWhateverEdgeOrder ==
    pc = "sorted" =>
        \A dg \in Reorderings(dependencies) : TopologicalSort(dg, topoIn) = topoOut


\* ------------------------------------------- SpecOrder: records of fields
\* Record A has up to MaxFields fields, each under one of three property
\* names (two fields may share one), a string that is plain, required, or
\* required with the omit-if-empty flag, or a slice of strings tagged
\* `dive,required`.  Record Address has the fields Street and ZipCode of the
\* README's Address.  The derivations are those of SpecBuild.
OrderProperties == {"f", "g", "h"}

OrderKinds ==
    {[type |-> PrimitiveT("string"), tags |-> NoTags, omit |-> FALSE],
     [type |-> PrimitiveT("string"), tags |-> ValidateTag(<<Part("required")>>), omit |-> FALSE],
     [type |-> PrimitiveT("string"), tags |-> ValidateTag(<<Part("required")>>), omit |-> TRUE],
     [type |-> SliceT(PrimitiveT("string")), tags |-> ValidateTag(<<Part("dive"), Part("required")>>), omit |-> FALSE]}

OrderFieldNames == <<"F1", "F2", "F3", "F4">>

OrderFields ==
    UNION {{[i \in 1..n |->
                FieldOf(OrderFieldNames[i], names[i], kinds[i].type, kinds[i].tags, "", FALSE, kinds[i].omit)] :
              names \in [1..n -> OrderProperties], kinds \in [1..n -> OrderKinds]} :
           n \in 1..MaxFields}

RecordAddress ==
    StructOf("Address",
        <<FieldOf("Street", "street", PrimitiveT("string"), ValidateTag(<<Part("required")>>), "Street address", FALSE, FALSE),
          FieldOf("ZipCode", "zip_code", PrimitiveT("string"),
                  ValidateTag(<<Part("required"), Part("numeric"), PartP("len", "5")>>),
                  "ZIP or postal code", FALSE, FALSE)>>,
        "Address represents a physical address", FALSE)

InitOrder ==
    /\ pc = "new"
    /\ builder = NewBuilder("")
    /\ \E fields \in OrderFields, inline \in BOOLEAN :
          structs = [n \in {"A", "Address"} |->
                        IF n = "A" THEN StructOf("A", fields, "", inline) ELSE RecordAddress]
    /\ target = ""
    /\ built = NotBuilt
    /\ IdleGraph
    /\ IdleRules
    /\ IdleRebuild
    /\ IdleGen
    /\ IdleExpand
    /\ IdleSplit

SpecOrder == InitOrder /\ [][NextBuild]_vars

\* ---------------------------------------------------------- Order claims
RECURSIVE FirstOccurrences(_, _, _)
\* The entries of seq from index i on, after those of acc, each entry once,
\* where it stands first.
FirstOccurrences(seq, i, acc) ==
    IF i > Len(seq) THEN acc
    ELSE FirstOccurrences(seq, i + 1, IF seq[i] \in Range(acc) THEN acc ELSE Append(acc, seq[i]))

\* The field is one the code lists as required: no omit-if-empty flag, and
\* `required` in its rule list (before the first `dive` for an array field).
C19_Required(field) ==
    /\ ~field.OmitEmpty
    /\ IF C6_ArrayField(field)
       THEN "required" \in NamesBeforeDive(ValidateNames(field))
       ELSE "required" \in Range(ValidateNames(field))

RECURSIVE C19_RequiredNames(_, _)
\* The property names of the required fields from index i on, in the order
\* of the fields.
C19_RequiredNames(fields, i) ==
    IF i > Len(fields) THEN <<>>
    ELSE (IF C19_Required(fields[i]) THEN <<fields[i].PropertyName>> ELSE <<>>)
         \o C19_RequiredNames(fields, i + 1)

\* C19: in a derived document the properties stand in the order in which the
\* fields declare their property names, the required list holds the property
\* names of the required fields in the order of the fields, and the document
\* of Address has the required list [street, zip_code], a string property
\* street, and a string property zip_code with the numeric pattern and
\* minLength = maxLength = 5.
C19_DeclarationOrder ==
    Derived_Case =>
        LET s == built.schema[1]
            fields == structs[target].Fields
            names == [i \in 1..Len(fields) |-> fields[i].PropertyName]
        IN  /\ s.Properties # <<>>
            /\ [j \in 1..Len(s.Properties[1]) |-> s.Properties[1][j].key]
                 = FirstOccurrences(names, 1, <<>>)
            /\ s.Required = C19_RequiredNames(fields, 1)
            /\ target = "Address" =>
                  /\ s.Required = <<"street", "zip_code">>
                  /\ s.Properties[1][1].value.Type = "string"
                  /\ s.Properties[1][2].value.Type = "string"
                  /\ s.Properties[1][2].value.Pattern = "^[0-9]+$"
                  /\ s.Properties[1][2].value.MinLength = <<5>>
                  /\ s.Properties[1][2].value.MaxLength = <<5>>

\* Record A, with the fields h, f and g in this order, h and g required, has
\* been derived: the properties are h, f, g and the required list is [h, g].
C19_Witness ==
    /\ Derived_Case
    /\ target = "A"
    /\ [i \in 1..Len(structs["A"].Fields) |-> structs["A"].Fields[i].PropertyName] = <<"h", "f", "g">>
    /\ C19_Required(structs["A"].Fields[1])
    /\ ~C19_Required(structs["A"].Fields[2])
    /\ C19_Required(structs["A"].Fields[3])
    /\ built.schema[1].Required = <<"h", "g">>
    /\ [j \in 1..3 |-> built.schema[1].Properties[1][j].key] = <<"h", "f", "g">>


\* ---------------------------------------------------------- Cycle claims
\* p runs along edges of E through nodes that all differ, and an edge of E
\* leads from its last node back to its first.
C20_SimpleCycle(p, E) ==
    /\ Len(p) >= 1
    /\ \A i, j \in 1..Len(p) : p[i] = p[j] => i = j
    /\ \A i \in 1..(Len(p) - 1) : <<p[i], p[i + 1]>> \in E
    /\ <<p[Len(p)], p[1]>> \in E

\* C20 as stated: the cycle DetectCircular reports starts with the node n
\* the back-edge leads onto, runs along the path to the node c the back-edge
\* leaves, ends there, and holds each of these nodes once.
C20_AsStated ==
    (pc = "detected" /\ dcOut.found) => C20_SimpleCycle(dcOut.cycle, Edges(dependencies))

\* C20: the cycle DetectCircular reports is the part of the path from n to c,
\* each of its nodes once, followed by n once more: it starts and ends with n,
\* and c stands before the last n.
C20_SuffixThenNodeAgain ==
    (pc = "detected" /\ dcOut.found) =>
        /\ Len(dcOut.cycle) >= 2
        /\ dcOut.cycle[Len(dcOut.cycle)] = dcOut.cycle[1]
        /\ C20_SimpleCycle(SubSeq(dcOut.cycle, 1, Len(dcOut.cycle) - 1), Edges(dependencies))

\* The walk started at A, went on to B and C, and met the edge from C back
\* onto B: the path is A, B, C and the cycle reported is B, C, B.
C20_Witness ==
    /\ pc = "detected"
    /\ dcOut.found
    /\ dependencies = [n \in {"A", "B", "C"} |->
                          CASE n = "A" -> <<"B">> [] n = "B" -> <<"C">> [] OTHER -> <<"B">>]
    /\ dcOut.cycle = <<"B", "C", "B">>


\* ------------------------------------------------- Supplied-name claims
\* The edges of the graph between names of the last TopologicalSort call.
SuppliedEdges ==
    {e \in Edges(dependencies) : e[1] \in Range(topoIn) /\ e[2] \in Range(topoIn)}

\* C21: TopologicalSort(names) fails exactly when the edges between supplied
\* names form a cycle, so an edge to a name outside the names, and a cycle
\* through such a name, causes no error; a result holds every supplied name
\* once and no other name, also when the names hold a name twice.
C21_OnlySuppliedNames ==
    pc = "sorted" =>
        /\ topoOut.err = "" <=> ~HasCycle(SuppliedEdges)
        /\ topoOut.err = "" =>
              /\ Range(topoOut.result) = Range(topoIn)
              /\ Len(topoOut.result) = Cardinality(Range(topoIn))

\* The graph holds the cycle A -> B -> A and the edge C -> A; the names
\* C, A, C, with C twice and without B, were sorted to A, C.
C21_Witness ==
    /\ pc = "sorted"
    /\ {<<"A", "B">>, <<"B", "A">>, <<"C", "A">>} = Edges(dependencies)
    /\ topoIn = <<"C", "A", "C">>
    /\ topoOut.err = ""
    /\ topoOut.result = <<"A", "C">>


\* ------------------------------------------------ Cycle-check claims
\* DetectCircular has run in this run and reported no cycle.
C22_NoCycleReported ==
    /\ pc \in {"generate", "done"}
    /\ gen.err \notin {"no exported structs found", "analyze refs", "circular dependency detected"}

\* C22: once DetectCircular has reported no cycle, TopologicalSort of the
\* names of the collected records has not failed, and no derivation of the
\* generate loop has ended with an error, so no inline expansion met a name
\* in progress.
C22_NoLaterCycleError ==
    C22_NoCycleReported =>
        /\ ~dcOut.found
        /\ topoOut.err = ""
        /\ gen.err = ""
        /\ built.err = ""

\* A run has ended in which DetectCircular found no cycle and the inline
\* record A was derived with B and C expanded in place, C a second time
\* below B.
C22_Witness ==
    /\ C22_NoCycleReported
    /\ pc = "done"
    /\ structs["A"].Inline
    /\ {<<"A", "B">>, <<"A", "C">>, <<"B", "C">>} \subseteq ResolvedEdges
    /\ "A" \in WrittenNames
    /\ target = "A"


\* --------------------------------- SpecExpand: a derivation, call by call
\* BuildSchema of one record against the struct map, with every call of
\* inlineStructSchema a step of its own.  The records are those of
\* SpecInline.  A frame [name, i] of the stack is a loop over the fields of
\* record `name` (that of BuildSchema at the bottom, those of buildInlineSchema
\* above it) that stands at field i.

\* A test of InProgress that never finds the name.
InProgressNever(inProgress, name) == FALSE

\* `if inlineCtx.InProgress[name]`
InProgressHas(inProgress, name) == name \in inProgress

\* The record whose expansion the field at the top of the stack asks for:
\* {name}, or {} when the field asks for none (no local exported record under
\* its type, a schema-type override, or a derivation that does not inline).
ExpandAsked ==
    LET top == stack[Len(stack)]
        field == structs[top.name].Fields[top.i]
    IN  IF structs[target].Inline /\ ~HasTypeOverride(field) THEN RecordUnder(field.Type) ELSE {}

\* The top frame moved on to its next field.
ExpandAdvanced == [stack EXCEPT ![Len(stack)].i = @ + 1]

\* builder.SetStructMap(structs), then the start of BuildSchema(structs[name]):
\* the context is made with the record itself in progress.
ExpandBegin ==
    /\ pc = "new"
    /\ \E name \in DOMAIN structs :
          /\ target' = name
          /\ stack' = <<[name |-> name, i |-> 1]>>
          /\ InProgress' = {name}
    /\ builder' = SetStructMap(builder, structs)
    /\ pc' = "expanding"
    /\ UNCHANGED <<splitVars, structs, built, graphVars, ruleVars, rebuildVars, genVars>>

\* One iteration of the loop over the fields at the top of the stack:
\* BuildFieldSchema of a field that asks for no expansion or for a record the
\* struct map lacks returns at once; for a record in progress it returns the
\* error, which every caller hands on; else inlineStructSchema marks the
\* record and buildInlineSchema starts its loop.
ExpandField ==
    /\ pc = "expanding"
    /\ stack[Len(stack)].i <= Len(structs[stack[Len(stack)].name].Fields)
    /\ IF ExpandAsked \cap DOMAIN builder.structMap[1] = {}
       THEN /\ stack' = ExpandAdvanced
            /\ UNCHANGED <<pc, InProgress>>
       ELSE \E name \in ExpandAsked :
               IF InProgressHas(InProgress, name)
               THEN /\ pc' = "failed"
                    /\ UNCHANGED <<stack, InProgress>>
               ELSE /\ Len(stack) < MaxDepth
                    /\ stack' = Append(stack, [name |-> name, i |-> 1])
                    /\ InProgress' = InProgress \cup {name}
                    /\ pc' = pc
    /\ UNCHANGED <<splitVars, graphVars, ruleVars, buildVars, rebuildVars, genVars>>

\* The loop at the top of the stack is through: buildInlineSchema returns to
\* inlineStructSchema, which deletes the name from InProgress and returns to
\* the field of the caller; at the bottom BuildSchema returns the document.
ExpandReturn ==
    /\ pc = "expanding"
    /\ stack[Len(stack)].i > Len(structs[stack[Len(stack)].name].Fields)
    /\ IF Len(stack) = 1
       THEN /\ pc' = "expanded"
            /\ UNCHANGED <<stack, InProgress>>
       ELSE /\ stack' = [SubSeq(stack, 1, Len(stack) - 1) EXCEPT ![Len(stack) - 1].i = @ + 1]
            /\ InProgress' = InProgress \ {stack[Len(stack)].name}
            /\ pc' = pc
    /\ UNCHANGED <<splitVars, graphVars, ruleVars, buildVars, rebuildVars, genVars>>

NextExpand == ExpandBegin \/ ExpandField \/ ExpandReturn

SpecExpand == InitInline /\ [][NextExpand]_vars

\* A derivation is one call that runs on until it returns.
SpecExpandFair == SpecExpand /\ WF_vars(NextExpand)

\* ------------------------------------------------------ Termination claims
\* The derivation has returned: with the document, or with the error.
C23_Returned == pc \in {"expanded", "failed"}

\* C23: the derivation of any record against any struct map returns, with a
\* document or with an error; the calls of inlineStructSchema under way are
\* calls for different records of the struct map, so they never nest deeper
\* than the struct map has records; a chain of references that comes back to
\* one of its records ends with the error, as BuildSchema says.
C23_DerivationTerminates ==
    /\ <>C23_Returned
    /\ [](pc = "expanding" =>
            /\ Len(stack) = Cardinality(InProgress)
            /\ InProgress \subseteq DOMAIN structs
            /\ Len(stack) < MaxDepth)
    /\ [](C23_Returned =>
            /\ pc = "failed" <=> (structs[target].Inline /\ C17_ChainReturns)
            /\ pc = "failed" <=> BuildSchema(builder, structs[target], NewRefTracker).err # "")

\* The derivation of the inline record A went from A to B, from B to C, met
\* the reference of C to A, and returned the error.
C23_Witness ==
    /\ pc = "failed"
    /\ target = "A"
    /\ [k \in 1..Len(stack) |-> stack[k].name] = <<"A", "B", "C">>
    /\ "A" \in ExpandAsked


\* ------------------------------------------------- Writing-order claims
\* C24: in a run, no record is written twice, also when it stands twice among
\* the collected records, and a written record that refers to another written
\* record is written after it.
C24_DependencyOrderOnce ==
    \A k, l \in 1..Len(written) :
        /\ written[k].name = written[l].name => k = l
        /\ (written[k].name # written[l].name
            /\ <<written[k].name, written[l].name>> \in ResolvedEdges) => l < k

\* A run has ended without error in which A was collected twice, first and
\* last, and refers to B, collected after it: B was written, then A.
C24_Witness ==
    /\ pc = "done"
    /\ gen.err = ""
    /\ TypeNamesOf(gen.allStructs) = <<"A", "B", "A">>
    /\ <<"A", "B">> \in ResolvedEdges
    /\ [k \in 1..Len(written) |-> written[k].name] = <<"B", "A">>


\* ---------------------------------------------------- Compatibility claims
\* The rule name cannot constrain a schema of this structural type: a string
\* format or pattern rule on a schema that is no string, a bound rule on a
\* schema that is neither a string nor a number.
C25_Incompatible(name, schema) ==
    \/ name \in {"email", "numeric"} /\ schema.Type \in {"integer", "boolean", "object", "array"}
    \/ name \in {"min", "max", "gte"} /\ schema.Type \in {"boolean", "object", "array"}

\* C25: ApplyValidation with a rule list of which every rule is incompatible
\* with the structural type of the schema leaves the schema as it was.
C25_IncompatibleIgnored ==
    (/\ pc = "applied"
     /\ ValidateNames(fieldIn) # <<>>
     /\ \A i \in 1..Len(ValidateNames(fieldIn)) : C25_Incompatible(ValidateNames(fieldIn)[i], schemaIn))
        => applied.schema = schemaIn


\* ------------------------------------------------------ Nested dive claims
\* The parts of a validate tag after its first `dive`.
C26_AfterDive(parts) ==
    LET d == CHOOSE i \in 1..Len(parts) :
                 /\ parts[i].name = "dive" /\ ~parts[i].eq
                 /\ \A j \in 1..(i - 1) : ~(parts[j].name = "dive" /\ ~parts[j].eq)
    IN  SubSeq(parts, d + 1, Len(parts))

\* ApplyValidation split the rules of an array of arrays at a `dive` that a
\* further `dive` follows.
C26_Case ==
    /\ pc = "applied"
    /\ schemaIn.Type = "array"
    /\ schemaIn.Items # <<>>
    /\ schemaIn.Items[1].Type = "array"
    /\ schemaIn.Items[1].Items # <<>>
    /\ "dive" \in Range(ValidateNames(fieldIn))
    /\ "dive" \in Range(AfterDive(ValidateNames(fieldIn)))

\* C26: the rules after the first `dive` are applied to the item schema as
\* ApplyValidation applies a rule list to a field's schema: split at the
\* next `dive`, the rules after it applied to the items of the items.
C26_DiveAppliesLikeField ==
    C26_Case =>
        applied.schema.Items[1]
          = ApplyValidation(schemaIn.Items[1],
                [fieldIn EXCEPT !.Tags = ValidateTag(C26_AfterDive(fieldIn.Tags["validate"]))]).schema


\* ------------------------------------------- SpecSplit: splitting a tag
\* The characters of a tag: a letter, the comma and the two brackets.
TagChars == {"a", ",", "[", "]"}

InitSplit ==
    /\ pc = "tag"
    /\ tagIn \in SeqsUpTo(TagChars, MaxTag)
    /\ partsOut = <<>>
    /\ IdleGraph
    /\ IdleRules
    /\ IdleBuild
    /\ IdleRebuild
    /\ IdleGen
    /\ IdleExpand

\* A call of splitValidateTag(tag).
SplitSplitValidateTag ==
    /\ pc = "tag"
    /\ partsOut' = splitValidateTag(tagIn)
    /\ pc' = "split"
    /\ UNCHANGED <<tagIn, graphVars, ruleVars, buildVars, rebuildVars, genVars, expandVars>>

NextSplit == SplitSplitValidateTag

SpecSplit == InitSplit /\ [][NextSplit]_vars

\* ------------------------------------------------------- Splitting claims
\* The number of characters c among tag[i..j].
CountIn(tag, i, j, c) == Cardinality({k \in i..j : tag[k] = c})

\* In tag[i..j] every bracket has its partner: no prefix closes more brackets
\* than it opens, and the whole closes as many as it opens.
Balanced(tag, i, j) ==
    /\ \A k \in i..j : CountIn(tag, i, k, "[") >= CountIn(tag, i, k, "]")
    /\ CountIn(tag, i, j, "[") = CountIn(tag, i, j, "]")

\* Position k of the tag lies inside a matching pair of brackets.
Enclosed(tag, k) ==
    \E i \in 1..(k - 1), j \in (k + 1)..Len(tag) :
        tag[i] = "[" /\ tag[j] = "]" /\ Balanced(tag, i + 1, j - 1)

\* The commas of the tag that no matching pair of brackets encloses.
OpenCommas(tag) == {k \in 1..Len(tag) : tag[k] = "," /\ ~Enclosed(tag, k)}

RECURSIVE TokensFrom(_, _, _, _)
\* The tokens the positions of S separate tag[i..] into, after the token
\* `current` under way; no token is counted after a last separator.
TokensFrom(tag, S, i, current) ==
    IF i > Len(tag) THEN (IF current = <<>> THEN <<>> ELSE <<current>>)
    ELSE IF i \in S THEN <<current>> \o TokensFrom(tag, S, i + 1, <<>>)
    ELSE TokensFrom(tag, S, i + 1, Append(current, tag[i]))

\* C27: splitValidateTag separates the tag at exactly the commas that no
\* matching pair of brackets encloses.
C27_SplitsAtOpenCommas ==
    pc = "split" => partsOut = TokensFrom(tagIn, OpenCommas(tagIn), 1, <<>>)

\* The same for the tags in which every bracket has its partner.
C27_BalancedOnly ==
    (pc = "split" /\ Balanced(tagIn, 1, Len(tagIn))) =>
        partsOut = TokensFrom(tagIn, OpenCommas(tagIn), 1, <<>>)


\* --------------------------------------------------- Malformed-bound claims
\* The parameters of the model that are numbers.
C28_Numbers == {"0", "1", "5", "150", "1.5"}

\* The part states a bound rule whose parameter is no number.
C28_Malformed(part) ==
    /\ part.name \in {"min", "max", "gte", "lte", "gt", "lt"}
    /\ part.param \notin C28_Numbers

RECURSIVE C28_Without(_)
\* The parts without the malformed bound rules.
C28_Without(parts) ==
    IF parts = <<>> THEN <<>>
    ELSE (IF C28_Malformed(Head(parts)) THEN <<>> ELSE <<Head(parts)>>) \o C28_Without(Tail(parts))

\* ApplyValidation ran on a rule list that holds a malformed bound rule.
C28_Case ==
    /\ pc = "applied"
    /\ "validate" \in DOMAIN fieldIn.Tags
    /\ \E i \in 1..Len(fieldIn.Tags["validate"]) : C28_Malformed(fieldIn.Tags["validate"][i])

\* C28: a bound rule whose parameter is no number changes nothing: the schema
\* and the required mark are those the rule list without it gives, so the
\* rules before and after it are applied.
C28_MalformedBoundSkipped ==
    C28_Case =>
        applied = ApplyValidation(schemaIn,
                      [fieldIn EXCEPT !.Tags = ValidateTag(C28_Without(fieldIn.Tags["validate"]))])

\* The rules `required,max=x,email` were applied to a string schema: it is
\* required, has the format, and has no maximum length.
C28_Witness ==
    /\ C28_Case
    /\ schemaIn = TypeSchema("string")
    /\ ValidateNames(fieldIn) = <<"required", "max", "email">>
    /\ applied.isRequired
    /\ applied.schema = [TypeSchema("string") EXCEPT !.Format = "email"]


\* ------------------------------------------- SpecEmbed: an embedded field
\* Record A embeds record Base (`type A struct { Base; ... }`, by value or by
\* pointer, with or without a name tag and a validate tag) before or after a
\* field of its own; Base has the one field ID.  parseField gives the
\* embedded field the name of its type, and the flag.
RecordBase ==
    StructOf("Base",
        <<FieldOf("ID", "id", PrimitiveT("string"), ValidateTag(<<Part("required")>>), "", FALSE, FALSE)>>,
        "", FALSE)

EmbeddedFields ==
    {FieldOf("Base", p, t, tags, "", TRUE, omit) :
        p \in {"Base", "base"},
        t \in {StructT("Base"), PointerT(StructT("Base"))},
        tags \in {NoTags, ValidateTag(<<Part("required")>>)},
        omit \in BOOLEAN}

OwnFields ==
    {FieldOf("Name", "name", t, tags, "", FALSE, FALSE) :
        t \in {PrimitiveT("string"), PrimitiveT("int")},
        tags \in {NoTags, ValidateTag(<<Part("required")>>)}}

InitEmbed ==
    /\ pc = "new"
    /\ \E schemaID \in {"", "https://example.com/schemas"} : builder = NewBuilder(schemaID)
    /\ \E e \in EmbeddedFields, f \in OwnFields, inline \in BOOLEAN :
        \E fields \in {<<e, f>>, <<f, e>>, <<e>>} :
          structs = [n \in {"A", "Base"} |->
                        IF n = "A" THEN StructOf("A", fields, "", inline) ELSE RecordBase]
    /\ target = ""
    /\ built = NotBuilt
    /\ IdleGraph
    /\ IdleRules
    /\ IdleRebuild
    /\ IdleGen
    /\ IdleExpand
    /\ IdleSplit

SpecEmbed == InitEmbed /\ [][NextBuild]_vars

\* ---------------------------------------------------------- Embedding claims
\* The keys of the properties of a schema.
PropertyKeys(s) ==
    IF s.Properties = <<>> THEN {} ELSE {s.Properties[1][j].key : j \in 1..Len(s.Properties[1])}

\* C29: the document of a record with an embedded field has no property
\* named after the embedded field, and has the properties of the embedded
\* record among its own.
C29_EmbeddedFlattened ==
    (Derived_Case /\ target = "A") =>
        \A i \in 1..Len(structs["A"].Fields) :
            structs["A"].Fields[i].IsEmbedded =>
                /\ structs["A"].Fields[i].PropertyName \notin PropertyKeys(built.schema[1])
                /\ "id" \in PropertyKeys(built.schema[1])


\* ------------------------------------------------------- Link-closure claims
\* A run has ended without error in which no lookup of a referenced record
\* failed.
C30_Case ==
    /\ pc = "done"
    /\ gen.err = ""
    /\ FailedLookups = {}

\* C30: at the end of such a run, every link of a written document is the
\* name of a file the run has written, the file of a record the document's
\* own record refers to.
C30_LinksClosed ==
    C30_Case =>
        \A k \in 1..Len(written) :
            \A p \in LinkPaths(written[k].schema) :
                \E l \in 1..Len(written) :
                    /\ written[l].file = p
                    /\ written[l].name \in RefsOf(structs[written[k].name])
                    /\ p = ToLower(written[l].name) \o ".schema.json"

\* A run has ended in which A, not inline, links to B, found by
\* auto-resolution, and the file of B is written.
C30_Witness ==
    /\ C30_Case
    /\ annotated = {"A"}
    /\ "B" \in Range(lookups)
    /\ \E k, l \in 1..Len(written) :
          /\ written[k].name = "A"
          /\ written[l].name = "B"
          /\ written[l].file = "b.schema.json"
          /\ "b.schema.json" \in LinkPaths(written[k].schema)

=============================================================================
